---- MODULE Spec2Model ----
(***************************************************************************)
(* Monthly Document Resolution & Retrieval Pipeline.                       *)
(*                                                                         *)
(* The repository holds three overlapping implementations of the pipeline: *)
(*   "selenium"  src/download_hdfc_monthly.py       (DOM-scan)             *)
(*   "wire"      src/download_hdfc_monthly_wire.py  (network capture)      *)
(*   "json"      src/download_hdfc_monthly_json.py  (embedded JSON)        *)
(* The module models their extraction, filtering and download stages as a  *)
(* state machine over the destination directory, and their pure helpers    *)
(* (string handling, URL handling, period normalisation, filtering,        *)
(* deduplication) as operators over strings.                               *)
(***************************************************************************)
EXTENDS Integers, Sequences, FiniteSets, TLC

(***************************************************************************)
(* Python string primitives.  Strings are TLA+ strings; positions are      *)
(* 1-based here and 0 means "not found" (Python's -1).                     *)
(***************************************************************************)

\* s[i-1:j] in Python terms: the characters i..j of s, clipped to s as a
\* Python slice is
Slice(s, i, j) ==
    LET lo == IF i < 1 THEN 1 ELSE i
        hi == IF j > Len(s) THEN Len(s) ELSE j
    IN  IF lo > hi THEN "" ELSE SubSeq(s, lo, hi)

\* s[i] as a one-character string ("" outside s)
CharAt(s, i) == Slice(s, i, i)

\* s[i:] in Python terms, i 1-based
Tail0(s, i) == Slice(s, i, Len(s))

\* str.startswith
StartsWith(s, p) == Len(p) <= Len(s) /\ Slice(s, 1, Len(p)) = p

\* str.endswith
EndsWith(s, p) == Len(p) <= Len(s) /\ Slice(s, Len(s) - Len(p) + 1, Len(s)) = p

\* the positions at which sub occurs in s
Occurrences(s, sub) ==
    { i \in 1..(Len(s) - Len(sub) + 1) : Slice(s, i, i + Len(sub) - 1) = sub }

Min(S) == CHOOSE x \in S : \A y \in S : x <= y

Max(S) == CHOOSE x \in S : \A y \in S : x >= y

\* str.find(sub, start): first occurrence at or after start, 0 when there is none
Find(s, sub, start) ==
    LET occ == { i \in Occurrences(s, sub) : i >= start }
    IN  IF occ = {} THEN 0 ELSE Min(occ)

\* str.rfind(sub): last occurrence, 0 when there is none
RFind(s, sub) ==
    LET occ == Occurrences(s, sub)
    IN  IF occ = {} THEN 0 ELSE Max(occ)

\* Python's "sub in s"
Contains(s, sub) == sub = "" \/ Occurrences(s, sub) # {}

Upper == <<"A","B","C","D","E","F","G","H","I","J","K","L","M",
           "N","O","P","Q","R","S","T","U","V","W","X","Y","Z">>

Lowers == <<"a","b","c","d","e","f","g","h","i","j","k","l","m",
            "n","o","p","q","r","s","t","u","v","w","x","y","z">>

LowerChar(c) ==
    IF \E k \in 1..26 : Upper[k] = c
    THEN Lowers[CHOOSE k \in 1..26 : Upper[k] = c]
    ELSE c

\* str.lower (by halves: the two halves are lowered and joined)
RECURSIVE Lower(_)
Lower(s) ==
    IF Len(s) <= 1 THEN LowerChar(s)
    ELSE Lower(Slice(s, 1, Len(s) \div 2)) \o Lower(Slice(s, Len(s) \div 2 + 1, Len(s)))

RECURSIVE LStrip(_)
LStrip(s) == IF Len(s) > 0 /\ CharAt(s, 1) = " " THEN LStrip(Tail0(s, 2)) ELSE s

RECURSIVE RStrip(_)
RStrip(s) ==
    IF Len(s) > 0 /\ CharAt(s, Len(s)) = " " THEN RStrip(Slice(s, 1, Len(s) - 1)) ELSE s

\* str.strip (blanks)
Strip(s) == RStrip(LStrip(s))

\* s[:n]
Prefix(s, n) == Slice(s, 1, IF n < Len(s) THEN n ELSE Len(s))

Digits == {"0","1","2","3","4","5","6","7","8","9"}

(***************************************************************************)
(* URL and path helpers (urllib.parse, os.path).                           *)
(***************************************************************************)

\* PAGE_URL, the page every script drives and the base relative links resolve against
PAGE_URL == "https://www.hdfcfund.com/statutory-disclosure/portfolio/monthly-portfolio"

HasScheme(u) == StartsWith(u, "http://") \/ StartsWith(u, "https://")

\* the first position of u after "scheme://", 1 when u has no scheme
AfterScheme(u) == IF HasScheme(u) THEN Find(u, "://", 1) + 3 ELSE 1

\* "scheme://netloc" of an absolute URL
Origin(u) ==
    LET slash == Find(u, "/", AfterScheme(u))
    IN  IF slash = 0 THEN u ELSE Slice(u, 1, slash - 1)

\* s cut before the first of the characters in stops
CutAt(s, stops) ==
    LET hits == { i \in 1..Len(s) : CharAt(s, i) \in stops }
    IN  IF hits = {} THEN s ELSE Slice(s, 1, Min(hits) - 1)

\* urlparse(u).path: no scheme, no netloc, no query, no fragment
UrlPath(u) ==
    LET rest == IF HasScheme(u)
                THEN LET slash == Find(u, "/", AfterScheme(u))
                     IN  IF slash = 0 THEN "" ELSE Tail0(u, slash)
                ELSE u
    IN  CutAt(rest, {"?", "#"})

\* os.path.basename
Basename(p) == Tail0(p, RFind(p, "/") + 1)

\* urljoin(base, href) for the forms of href the pages hold: an absolute URL is
\* kept, a path starting with "/" replaces the base's path, any other reference
\* replaces the last segment of the base's path
UrlJoin(base, href) ==
    IF href = "" THEN base
    ELSE IF HasScheme(href) THEN href
    ELSE IF StartsWith(href, "/") THEN Origin(base) \o href
    ELSE Slice(base, 1, RFind(base, "/")) \o href

\* os.path.splitext of a file name: <<root, ext>>; the extension starts at the
\* last dot unless only dots precede it
SplitExt(name) ==
    LET dot == RFind(name, ".")
        lead == { i \in 1..Len(name) : \A j \in 1..i : CharAt(name, j) = "." }
    IN  IF dot = 0 \/ dot \in lead
        THEN <<name, "">>
        ELSE <<Slice(name, 1, dot - 1), Tail0(name, dot)>>

\* the suffix put after the extension instead of before it
SuffixedAfterExt(base, counter, ext) == base \o ext \o "(" \o ToString(counter) \o ")"

\* f"{base}({counter}){ext}"
Suffixed(base, counter, ext) == base \o "(" \o ToString(counter) \o ")" \o ext

\* the loop "while os.path.exists(out_path): out_path = f'{base}({counter}){ext}'"
RECURSIVE ProbeFree(_, _, _, _)
ProbeFree(dir, base, ext, counter) ==
    LET p == Suffixed(base, counter, ext)
    IN  IF p \in dir THEN ProbeFree(dir, base, ext, counter + 1) ELSE p

\* the destination taken from the URL alone, whatever the folder holds
AllocPathNoProbe(dir, filename) == filename

\* the destination download_file (selenium, wire) settles on for a file name,
\* dir being the names present in the destination folder
AllocPath(dir, filename) ==
    IF filename \in dir
    THEN ProbeFree(dir, SplitExt(filename)[1], SplitExt(filename)[2], 1)
    ELSE filename

\* the file name download_file derives from the URL (selenium)
SelFileName(url) ==
    IF Basename(UrlPath(url)) = "" THEN "downloaded.xlsx" ELSE Basename(UrlPath(url))

\* the file name download_file derives from the URL (wire)
WireFileName(url) ==
    IF Basename(UrlPath(url)) = "" THEN "download.xlsx" ELSE Basename(UrlPath(url))

\* os.path.basename(url.split('?')[0]) (json)
JsonFileName(url) == Basename(CutAt(url, {"?"}))


(***************************************************************************)
(* Period Normalizer.                                                      *)
(***************************************************************************)

\* the twelve canonical month names
MonthNames == <<"January", "February", "March", "April", "May", "June", "July",
                "August", "September", "October", "November", "December">>

\* month_map of prompt_year_month, as written: key/value pairs in source order
\* (the row of May holds '5' and '05' only)
month_map ==
    << <<"1", "January">>, <<"01", "January">>, <<"jan", "January">>, <<"january", "January">>,
       <<"2", "February">>, <<"02", "February">>, <<"feb", "February">>, <<"february", "February">>,
       <<"3", "March">>, <<"03", "March">>, <<"mar", "March">>, <<"march", "March">>,
       <<"4", "April">>, <<"04", "April">>, <<"apr", "April">>, <<"april", "April">>,
       <<"5", "May">>, <<"05", "May">>,
       <<"6", "June">>, <<"06", "June">>, <<"jun", "June">>, <<"june", "June">>,
       <<"7", "July">>, <<"07", "July">>, <<"jul", "July">>, <<"july", "July">>,
       <<"8", "August">>, <<"08", "August">>, <<"aug", "August">>, <<"august", "August">>,
       <<"9", "September">>, <<"09", "September">>, <<"sep", "September">>, <<"september", "September">>,
       <<"10", "October">>, <<"oct", "October">>, <<"october", "October">>,
       <<"11", "November">>, <<"nov", "November">>, <<"november", "November">>,
       <<"12", "December">>, <<"dec", "December">>, <<"december", "December">> >>

\* dict.get(key, default) on a sequence of key/value pairs
DictGet(pairs, key, default) ==
    IF \E k \in 1..Len(pairs) : pairs[k][1] = key
    THEN pairs[CHOOSE k \in 1..Len(pairs) : pairs[k][1] = key][2]
    ELSE default

\* prompt_year_month (selenium and wire, same text): the month it returns for
\* the line typed at the prompt; an unmapped key falls back to the raw input
PromptMonth(typed) ==
    LET month_in == Strip(typed)
        key == Lower(Strip(month_in))
    IN  DictGet(month_map, key, month_in)

\* months of normalize_month_input: lower-cased full name -> canonical name
JsonMonths == [k \in 1..12 |-> <<Lower(MonthNames[k]), MonthNames[k]>>]

\* short_map of normalize_month_input: {k[:3]: v}
JsonShortMap == [k \in 1..12 |-> <<Prefix(JsonMonths[k][1], 3), JsonMonths[k][2]>>]

\* the value standing for "raise ValueError('Unknown month')"
ValueError == "<ValueError>"

\* normalize_month_input (json)
normalize_month_input(month) ==
    LET m == Lower(Strip(month))
    IN  IF \E k \in 1..12 : JsonMonths[k][1] = m
        THEN DictGet(JsonMonths, m, ValueError)
        ELSE DictGet(JsonShortMap, Prefix(m, 3), ValueError)

\* re.match(r'^(\d{4})', year)
LeadingFourDigits(y) ==
    IF Len(y) >= 4 /\ \A k \in 1..4 : CharAt(y, k) \in Digits THEN Slice(y, 1, 4) ELSE ""

\* year_num of main (json): "" stands for None (no filtering by year)
JsonYearNum(year) ==
    IF year = "" THEN ""
    ELSE IF LeadingFourDigits(year) # "" THEN LeadingFourDigits(year)
    ELSE IF Contains(year, "-") THEN CutAt(year, {"-"})
    ELSE ""

(***************************************************************************)
(* Candidate Filter and deduplication.                                     *)
(***************************************************************************)

\* "seen = set(); keep u unless u in seen": first occurrences, in order
RECURSIVE DedupFrom(_, _)
DedupFrom(seq, seen) ==
    IF seq = <<>> THEN <<>>
    ELSE IF Head(seq) \in seen THEN DedupFrom(Tail(seq), seen)
    ELSE <<Head(seq)>> \o DedupFrom(Tail(seq), seen \cup {Head(seq)})

Dedup(seq) == DedupFrom(seq, {})

\* the period test alone, an entry without url let through
JsonEntryMatchesAnyUrl(entry, month, year_num) ==
    /\ (Contains(entry.title, month) \/ Contains(entry.url, month))
    /\ (year_num = "" \/ Contains(entry.title, year_num) \/ Contains(entry.url, year_num))

\* the test of main (json) on one entry of the files list: it has a url, and the
\* month and (when given) the year occur in its title or url, compared as written
JsonEntryMatches(entry, month, year_num) ==
    /\ entry.url # ""
    /\ (Contains(entry.title, month) \/ Contains(entry.url, month))
    /\ (year_num = "" \/ Contains(entry.title, year_num) \/ Contains(entry.url, year_num))

\* the entries that pass, their titles stored lower-cased
JsonFilterLowered(files, month, year_num) ==
    LET kept == SelectSeq(files, LAMBDA e : JsonEntryMatches(e, month, year_num))
    IN  [k \in 1..Len(kept) |-> [title |-> Lower(kept[k].title), url |-> kept[k].url]]

\* matches of main (json): the (title, url) of the entries that pass, in order
JsonFilter(files, month, year_num) ==
    SelectSeq(files, LAMBDA e : JsonEntryMatches(e, month, year_num))


(***************************************************************************)
(* Link Extractor: DOM-scan (selenium) and network capture (wire).         *)
(***************************************************************************)

\* href.lower().endswith(".xls") or href.lower().endswith(".xlsx")
EndsInExcel(u) == EndsWith(Lower(u), ".xls") \/ EndsWith(Lower(u), ".xlsx")

\* the number of consecutive characters of s from position q on that are not in stops
RunLen(s, q, stops) ==
    LET hits == { i \in q..Len(s) : CharAt(s, i) \in stops }
    IN  IF hits = {} THEN (IF q > Len(s) THEN 0 ELSE Len(s) - q + 1) ELSE Min(hits) - q

\* the length of "http://" or "https://" when s holds it at position p, else 0
SchemeLenAt(s, p) ==
    IF Slice(s, p, p + 7) = "https://" THEN 8
    ELSE IF Slice(s, p, p + 6) = "http://" THEN 7
    ELSE 0

\* the characters the class [^\s'\"\\)] of the onclick pattern refuses
OnclickStops == {" ", "'", "\"", "\\", ")"}

\* the match of (https?://[^\s'\"\\)]+\.xls[x]?) starting at position p of s,
\* "" when there is none: the class is greedy, so the last ".xls" of the run ends it
OnclickMatchAt(s, p) ==
    LET n == SchemeLenAt(s, p)
        q == p + n
        span == Slice(s, q, q + RunLen(s, q, OnclickStops) - 1)
        js == { j \in Occurrences(span, ".xls") : j >= 2 }
        j == Max(js)
        stop == IF CharAt(span, j + 4) = "x" THEN j + 4 ELSE j + 3
    IN  IF n = 0 \/ js = {} THEN "" ELSE Slice(s, p, q + stop - 1)

\* re.search of the onclick pattern: the leftmost match, "" when none
OnclickUrl(s) ==
    LET ps == { p \in Occurrences(s, "http") : OnclickMatchAt(s, p) # "" }
    IN  IF ps = {} THEN "" ELSE OnclickMatchAt(s, Min(ps))

\* hrefs of scrape_and_download (selenium) from the anchors of the page:
\* anchors whose href contains ".xls", kept when the href ends in .xls/.xlsx,
\* deduplicated preserving order
SelAnchorHrefs(anchors) ==
    Dedup(SelectSeq(anchors, LAMBDA h : Contains(h, ".xls") /\ h # "" /\ EndsInExcel(h)))

\* onclick_links of scrape_and_download (selenium): one URL per element whose
\* onclick mentions xls and holds a URL the pattern matches; not deduplicated
RECURSIVE SelOnclickLinks(_)
SelOnclickLinks(onclicks) ==
    IF onclicks = <<>> THEN <<>>
    ELSE (IF Contains(Head(onclicks), "xls") /\ OnclickUrl(Head(onclicks)) # ""
          THEN <<OnclickUrl(Head(onclicks))>> ELSE <<>>) \o SelOnclickLinks(Tail(onclicks))

\* hrefs as the download loop of scrape_and_download (selenium) receives them
SelExtract(anchors, onclicks) ==
    IF SelAnchorHrefs(anchors) # <<>> THEN SelAnchorHrefs(anchors) ELSE SelOnclickLinks(onclicks)

\* the characters the class [^'\"\\s>] of the body pattern refuses (as the raw
\* string is written the class holds a backslash and the letter s; with
\* re.IGNORECASE the letter S too)
WireBodyStops == {"'", "\"", "\\", "s", "S", ">"}

\* the match of https?://[^'\"\\s>]+\\.(?:xlsx|xls) (IGNORECASE) starting at
\* position p of text, "" when none: after the run the pattern wants a literal
\* backslash, any one character, then xlsx or xls
WireBodyMatchAt(text, p) ==
    LET n == SchemeLenAt(Lower(text), p)
        q == p + n
        k == RunLen(text, q, WireBodyStops)
        b == q + k
    IN  IF n = 0 \/ k = 0 \/ CharAt(text, b) # "\\" \/ b + 1 > Len(text) THEN ""
        ELSE IF Lower(Slice(text, b + 2, b + 5)) = "xlsx" THEN Slice(text, p, b + 5)
        ELSE IF Lower(Slice(text, b + 2, b + 4)) = "xls" THEN Slice(text, p, b + 4)
        ELSE ""

\* re.findall of the body pattern: the matches from position p on, left to
\* right, each search resuming after the match before it
RECURSIVE WireBodyUrlsFrom(_, _)
WireBodyUrlsFrom(text, p) ==
    LET starts == { q \in Occurrences(Lower(text), "http") :
                      q >= p /\ WireBodyMatchAt(text, q) # "" }
        m == WireBodyMatchAt(text, Min(starts))
    IN  IF starts = {} THEN <<>>
        ELSE <<m>> \o WireBodyUrlsFrom(text, Min(starts) + Len(m))

\* what one captured request adds to urls in extract_urls_from_requests.
\* A request is [url, hasResponse, ctype, body, parses, leaves]: body is
\* the response text, parses whether json.loads accepts it, leaves the string
\* values of the parsed document in walk order
WireRequestUrls(req) ==
    IF ~req.hasResponse THEN <<>>
    ELSE IF EndsInExcel(req.url) THEN <<req.url>>
    ELSE IF Contains(req.ctype, "application/json") \/ Contains(req.ctype, "text/json")
            \/ req.body # ""
         THEN WireBodyUrlsFrom(req.body, 1)
              \o (IF req.parses THEN SelectSeq(req.leaves, EndsInExcel) ELSE <<>>)
         ELSE <<>>

RECURSIVE WireAllUrls(_)
WireAllUrls(requests) ==
    IF requests = <<>> THEN <<>>
    ELSE WireRequestUrls(Head(requests)) \o WireAllUrls(Tail(requests))

\* extract_urls_from_requests (wire): the URLs of all requests, deduplicated
\* preserving order
extract_urls_from_requests(requests) == Dedup(WireAllUrls(requests))

\* hrefs of the final attempt of scrape_and_download (wire): every anchor whose
\* href contains ".xls", as is
WireAnchorHrefs(anchors) ==
    SelectSeq(anchors, LAMBDA h : Contains(h, ".xls") /\ h # "")


(***************************************************************************)
(* The pages and payloads the runs are checked on.                         *)
(***************************************************************************)

\* the longest list of anchors, onclick elements, captured requests or payload
\* entries a page holds
MaxLinks == 2

\* the September document, as an absolute URL, with a query string, and as a
\* reference relative to the site
SeptemberUrl == "https://www.hdfcfund.com/files/September2025/report.xlsx"

SeptemberUrlQuery == "https://www.hdfcfund.com/files/September2025/report.xlsx?v=2"

SeptemberUrlRelative == "/files/September2025/report.xlsx"

\* the October document: another URL with the same base name
OctoberUrl == "https://www.hdfcfund.com/files/October2025/report.xlsx"

\* a document whose URL names no period
ArchiveUrl == "https://www.hdfcfund.com/files/archive/mp0925.xlsx"

\* href attributes of the anchors of a page
PageAnchors == {SeptemberUrl, OctoberUrl}

\* onclick attributes of the elements of a page
PageOnclicks ==
    { "window.open('https://www.hdfcfund.com/files/September2025/report.xlsx')",
      "download(\"https://www.hdfcfund.com/files/September2025/report.xlsx?v=2\")",
      "toggle('xls')" }

\* requests the browser may have recorded
PageRequests ==
    { [url |-> SeptemberUrl, hasResponse |-> TRUE, ctype |-> "application/vnd.ms-excel",
       body |-> "", parses |-> FALSE, leaves |-> <<>>],
      [url |-> OctoberUrl, hasResponse |-> FALSE, ctype |-> "",
       body |-> "", parses |-> FALSE, leaves |-> <<>>],
      [url |-> "https://www.hdfcfund.com/api/files", hasResponse |-> TRUE,
       ctype |-> "application/json",
       body |-> "{\"files\":[\"/files/September2025/report.xlsx\",\"https://www.hdfcfund.com/files/September2025/report.xlsx\"]}",
       parses |-> TRUE, leaves |-> <<SeptemberUrlRelative, SeptemberUrl>>],
      [url |-> "https://www.hdfcfund.com/api/latest", hasResponse |-> TRUE,
       ctype |-> "application/json",
       body |-> "{\"latest\":\"https://www.hdfcfund.com/files/October2025/report.xlsx\"}",
       parses |-> TRUE, leaves |-> <<OctoberUrl>>] }

\* entries of the files list of the embedded payload: title and file.url ("" when
\* the entry has none)
PayloadEntries ==
    { [title |-> "30 September 2025 Portfolio", url |-> SeptemberUrl],
      [title |-> "PORTFOLIO 30 SEPTEMBER 2025", url |-> ArchiveUrl],
      [title |-> "31 October 2025 Portfolio", url |-> OctoberUrl],
      [title |-> "Monthly portfolio (revised)", url |-> SeptemberUrlQuery],
      [title |-> "Portfolio as on 30 September 2025", url |-> ArchiveUrl],
      [title |-> "September 2025 (withdrawn)", url |-> ""] }

\* names files may bear in the destination folder before the run
BeforeNames == {"report.xlsx", "report(1).xlsx"}

\* the sequences over S of length at most n
SeqsUpTo(S, n) == UNION { [1..k -> S] : k \in 0..n }

\* the month of the query, as the normalizer hands it on
QueryMonths == {"September", "October"}

\* the year of the query as typed; "" when none is given
QueryYears == {"", "2025-2026"}

\* what can happen to one HTTP fetch of download_file: the body is written
\* whole ("ok"); the request or raise_for_status raises before the file is
\* opened ("http_error"); iter_content raises after the file was opened
\* ("stream_error")
FetchOutcomes == {"ok", "http_error", "stream_error"}

\* debug_afterrequests_{ts}.html, the page source wire leaves in the folder
\* when nothing was downloaded
DebugHtml == "debug_afterrequests_ts.html"

DebugFile == [src |-> "(page_source)", whole |-> TRUE]

\* what a file that was in the folder before the run holds
BeforeFile == [src |-> "(before)", whole |-> TRUE]

(***************************************************************************)
(* The run: extraction, filtering, download.                               *)
(***************************************************************************)

VARIABLES
    impl,        \* which script runs: "selenium", "wire", "json"
    pc,          \* where the run stands
    queryMonth,  \* the month of the query
    queryYear,   \* the year of the query as typed
    folder,      \* the destination folder: file name -> what the file holds
    hrefs,       \* the candidates under download: hrefs / found_urls / matches
    pos,         \* the index in hrefs of the next candidate
    stage,       \* "primary": the first download loop; "final": wire's final attempt
    downloaded,  \* downloaded_files / downloaded; for json the paths reported saved
    log,         \* every pass of a download loop of the run, in order
    candidates,  \* the list handed to the Candidate Filter
    resolved,    \* what the latest pass of the filter returned
    passes,      \* how many times the filter has been applied
    monthIndex,  \* the month meant by the user, 1..12
    spelling,    \* the month as typed
    canonical,   \* the month as the normalizer returns it
    trail,       \* what the run has done outside the download loops, in order
    failure,     \* the exception the run ends with, "" when there is none
    workers,     \* the calls of download_file in progress at the same time
    doc,         \* the page in the browser: its selects, frames and other fields
    frameCtx,    \* the browsing context: 0 the main document, k its k-th iframe
    foundYear,   \* found_year of scrape_and_download
    foundMonth,  \* found_month of scrape_and_download
    picked,      \* per select of the context, the option the run selected ("" none)
    wireLog,     \* driver.requests: the requests selenium-wire holds
    scriptTexts, \* the texts of the script tags of the fetched page
    mpContent    \* what find_month_portfolio_content gave for them

pipeVars == <<impl, pc, queryMonth, queryYear, folder, hrefs, pos, stage, downloaded, log>>

filterVars == <<candidates, resolved, passes>>

normVars == <<monthIndex, spelling, canonical>>

runVars == <<trail, failure>>

allocVars == <<workers>>

driveVars == <<doc, frameCtx, foundYear, foundMonth, picked, wireLog>>

embedVars == <<scriptTexts, mpContent>>

otherVars == <<allocVars, driveVars, embedVars>>

vars == <<pipeVars, filterVars, normVars, runVars, otherVars>>

\* a page without selects, frames or fields
NoDoc == [main |-> <<>>, frames |-> <<>>, fields |-> {}]

\* find_month_portfolio_content has not returned: status is "scanning", then
\* "returned" with the text of the value it returns, or "RuntimeError"; tried
\* holds, per script that held the marker, its index and the object text
\* taken from it
NoContent == [status |-> "scanning", value |-> "", tried |-> <<>>]

\* no concurrent download, no page driven, no script text read
OtherIdle ==
    /\ workers = <<>>
    /\ doc = NoDoc /\ frameCtx = 0 /\ foundYear = FALSE /\ foundMonth = FALSE
    /\ picked = <<>> /\ wireLog = <<>>
    /\ scriptTexts = <<>> /\ mpContent = NoContent

\* the folder with one more file written (open(path, "wb") truncates)
WriteFile(d, path, content) ==
    [n \in DOMAIN d \cup {path} |-> IF n = path THEN content ELSE d[n]]

\* the folder after download_file ended with the given outcome
AfterFetch(d, path, url, outcome) ==
    CASE outcome = "ok" -> WriteFile(d, path, [src |-> url, whole |-> TRUE])
      [] outcome = "stream_error" -> WriteFile(d, path, [src |-> url, whole |-> FALSE])
      [] OTHER -> d

\* every pass of the loop adds its path to the list, failed or not
CollectedAlways(list, path, outcome) == Append(list, path)

\* "path = download_file(...); downloaded_files.append(path)" inside the try:
\* the append is reached only when download_file returns
Collected(list, path, outcome) ==
    IF outcome = "ok" THEN Append(list, path) ELSE list

\* an exception of download_file leaves the loop
NextPosAbort(p, total, outcome) ==
    IF outcome \in {"http_error", "stream_error"} THEN total + 1 ELSE p + 1

\* the index of the candidate the for loop takes after a pass: the except
\* clause prints the failure and the loop goes on with the next one
NextPos(p, total, outcome) == p + 1

\* a candidate as the download loops hold it
Candidate(title, url) == [title |-> title, url |-> url]

RECURSIVE AsCandidates(_)
AsCandidates(urls) ==
    IF urls = <<>> THEN <<>> ELSE <<Candidate("", Head(urls))>> \o AsCandidates(Tail(urls))

\* one line of the log
LogEntry(cand, url, path, outcome, existed) ==
    [stage |-> stage, title |-> cand.title, href |-> cand.url, url |-> url,
     path |-> path, outcome |-> outcome, existed |-> existed]

PipeInit ==
    /\ impl \in {"selenium", "wire", "json"}
    /\ pc = "extract"
    /\ queryMonth \in QueryMonths
    /\ queryYear \in QueryYears
    /\ folder \in { [n \in names |-> BeforeFile] : names \in SUBSET BeforeNames }
    /\ hrefs = <<>>
    /\ pos = 1
    /\ stage = "primary"
    /\ downloaded = <<>>
    /\ log = <<>>
    /\ candidates = <<>> /\ resolved = <<>> /\ passes = 0
    /\ monthIndex = 0 /\ spelling = "" /\ canonical = ""
    /\ trail = <<>> /\ failure = ""
    /\ OtherIdle


\* what the pages can make each script collect (the extraction applied to every
\* page within the bounds)
SelPages ==
    { SelExtract(anchors, onclicks) :
        anchors \in SeqsUpTo(PageAnchors, MaxLinks),
        onclicks \in SeqsUpTo(PageOnclicks, MaxLinks) }

WirePages ==
    { extract_urls_from_requests(requests) :
        requests \in SeqsUpTo(PageRequests, MaxLinks) }

WireFinalPages ==
    { WireAnchorHrefs(anchors) : anchors \in SeqsUpTo(PageAnchors, MaxLinks) }

\* scrape_and_download (selenium), from the collection of the links to the
\* download loop: hrefs from the anchors, else from the onclick attributes;
\* "return []" when there are none
SelCollect ==
    /\ impl = "selenium" /\ pc = "extract"
    /\ \E found \in SelPages :
         /\ hrefs' = AsCandidates(found)
         /\ pc' = IF found = <<>> THEN "done" ELSE "download"
    /\ pos' = 1
    /\ UNCHANGED <<impl, queryMonth, queryYear, folder, stage, downloaded, log>>
    /\ UNCHANGED <<filterVars, normVars, otherVars, runVars>>

\* one pass of "for href in hrefs" (selenium): urljoin, download_file, and the
\* except clause that prints and goes on
SelDownload ==
    /\ impl = "selenium" /\ pc = "download" /\ pos <= Len(hrefs)
    /\ \E full_url \in { UrlJoin(PAGE_URL, hrefs[pos].url) } :
       \E out_path \in { AllocPath(DOMAIN folder, SelFileName(full_url)) } :
       \E outcome \in FetchOutcomes :
         /\ folder' = AfterFetch(folder, out_path, full_url, outcome)
         /\ downloaded' = Collected(downloaded, out_path, outcome)
         /\ pos' = NextPos(pos, Len(hrefs), outcome)
         /\ log' = Append(log, LogEntry(hrefs[pos], full_url, out_path, outcome,
                                        out_path \in DOMAIN folder))
    /\ UNCHANGED <<impl, pc, queryMonth, queryYear, hrefs, stage>>
    /\ UNCHANGED <<filterVars, normVars, otherVars, runVars>>

\* "return downloaded_files" (selenium)
SelReturn ==
    /\ impl = "selenium" /\ pc = "download" /\ pos > Len(hrefs)
    /\ pc' = "done"
    /\ UNCHANGED <<impl, queryMonth, queryYear, folder, hrefs, pos, stage, downloaded, log>>
    /\ UNCHANGED <<filterVars, normVars, otherVars, runVars>>

\* scrape_and_download (wire): found_urls from the captured requests
WireCollect ==
    /\ impl = "wire" /\ pc = "extract"
    /\ \E found_urls \in WirePages : hrefs' = AsCandidates(found_urls)
    /\ pc' = "download"
    /\ pos' = 1
    /\ UNCHANGED <<impl, queryMonth, queryYear, folder, stage, downloaded, log>>
    /\ UNCHANGED <<filterVars, normVars, otherVars, runVars>>

\* one pass of "for u in found_urls" or of "for h in hrefs" (wire): the first
\* loop joins u to PAGE_URL, the final attempt passes the href as it is
WireDownload ==
    /\ impl = "wire" /\ pc = "download" /\ pos <= Len(hrefs)
    /\ \E full \in { IF stage = "primary" THEN UrlJoin(PAGE_URL, hrefs[pos].url)
                     ELSE hrefs[pos].url } :
       \E out_path \in { AllocPath(DOMAIN folder, WireFileName(full)) } :
       \E outcome \in FetchOutcomes :
         /\ folder' = AfterFetch(folder, out_path, full, outcome)
         /\ downloaded' = Collected(downloaded, out_path, outcome)
         /\ pos' = NextPos(pos, Len(hrefs), outcome)
         /\ log' = Append(log, LogEntry(hrefs[pos], full, out_path, outcome,
                                        out_path \in DOMAIN folder))
    /\ UNCHANGED <<impl, pc, queryMonth, queryYear, hrefs, stage>>
    /\ UNCHANGED <<filterVars, normVars, otherVars, runVars>>

\* "if not downloaded:" after the first loop (wire): the anchors of the page
\* whose href contains ".xls" are downloaded as a final attempt
WireFinalAttempt ==
    /\ impl = "wire" /\ pc = "download" /\ stage = "primary" /\ pos > Len(hrefs)
    /\ downloaded = <<>>
    /\ \E found \in WireFinalPages : hrefs' = AsCandidates(found)
    /\ stage' = "final"
    /\ pos' = 1
    /\ UNCHANGED <<impl, pc, queryMonth, queryYear, folder, downloaded, log>>
    /\ UNCHANGED <<filterVars, normVars, otherVars, runVars>>

\* the end of scrape_and_download (wire): with nothing downloaded the debug
\* page is written, and open() of it is outside any try, so it may raise;
\* otherwise "return downloaded"
WireReturn ==
    /\ impl = "wire" /\ pc = "download" /\ pos > Len(hrefs)
    /\ stage = "final" \/ downloaded # <<>>
    /\ \/ /\ downloaded # <<>>
          /\ pc' = "done"
          /\ UNCHANGED <<folder, trail, failure>>
       \/ /\ downloaded = <<>>
          /\ \E debug_write_raises \in BOOLEAN :
               IF debug_write_raises
               THEN /\ pc' = "raised" /\ folder' = folder
                    /\ trail' = trail \o <<"nothing_downloaded", "write_html">>
                    /\ failure' = "OSError"
               ELSE /\ pc' = "done" /\ folder' = WriteFile(folder, DebugHtml, DebugFile)
                    /\ trail' = trail \o <<"nothing_downloaded", "write_html", "save_screenshot">>
                    /\ failure' = failure
    /\ UNCHANGED <<impl, queryMonth, queryYear, hrefs, pos, stage, downloaded, log>>
    /\ UNCHANGED <<filterVars, normVars, otherVars>>

\* main (json), from the files of the payload to the download loop: files is
\* kept in candidates, matches go to the loop, and sys.exit(0) when there are none
JsonCollect ==
    /\ impl = "json" /\ pc = "extract"
    /\ \E files \in SeqsUpTo(PayloadEntries, MaxLinks) :
       \E matches \in { JsonFilter(files, queryMonth, JsonYearNum(queryYear)) } :
         /\ candidates' = files
         /\ hrefs' = matches
         /\ pc' = IF matches = <<>> THEN "done" ELSE "download"
    /\ pos' = 1
    /\ UNCHANGED <<impl, queryMonth, queryYear, folder, stage, downloaded, log>>
    /\ UNCHANGED <<resolved, passes, normVars, otherVars, runVars>>

\* one pass of "for title, url in matches" (json): an existing destination is
\* skipped, else download_file, and the except clause that prints and goes on
JsonDownload ==
    /\ impl = "json" /\ pc = "download" /\ pos <= Len(hrefs)
    /\ \E fname \in { JsonFileName(hrefs[pos].url) } :
       \E exists \in { fname = "" \/ fname \in DOMAIN folder } :
       \E outcome \in (IF exists THEN {"skipped"} ELSE FetchOutcomes) :
         /\ folder' = AfterFetch(folder, fname, hrefs[pos].url, outcome)
         /\ downloaded' = Collected(downloaded, fname, outcome)
         /\ pos' = NextPos(pos, Len(hrefs), outcome)
         /\ log' = Append(log, LogEntry(hrefs[pos], hrefs[pos].url, fname, outcome, exists))
    /\ UNCHANGED <<impl, pc, queryMonth, queryYear, hrefs, stage>>
    /\ UNCHANGED <<filterVars, normVars, otherVars, runVars>>

\* the end of main (json)
JsonReturn ==
    /\ impl = "json" /\ pc = "download" /\ pos > Len(hrefs)
    /\ pc' = "done"
    /\ UNCHANGED <<impl, queryMonth, queryYear, folder, hrefs, pos, stage, downloaded, log>>
    /\ UNCHANGED <<filterVars, normVars, otherVars, runVars>>

PipeNext ==
    \/ SelCollect \/ SelDownload \/ SelReturn
    \/ WireCollect \/ WireDownload \/ WireFinalAttempt \/ WireReturn
    \/ JsonCollect \/ JsonDownload \/ JsonReturn

Init == PipeInit

Next == PipeNext

Spec == Init /\ [][Next]_vars

(***************************************************************************)
(* The Candidate Filter on its own: the period match of main (json) and    *)
(* the removal of duplicates of the selenium and wire scripts, applied to  *)
(* a list and then to its own result.                                       *)
(***************************************************************************)

\* how often the filter is applied to its own result
MaxPasses == 2

\* links the removal of duplicates is handed
LinkPool == {SeptemberUrl, SeptemberUrlRelative, OctoberUrl}

\* one pass of the filter of a script over a list
FilterPass(kind, list, m, y) ==
    IF kind = "json" THEN JsonFilter(list, m, JsonYearNum(y)) ELSE Dedup(list)

FilterInit ==
    /\ impl \in {"selenium", "wire", "json"}
    /\ pc = "filter"
    /\ queryMonth \in QueryMonths
    /\ queryYear \in QueryYears
    /\ candidates \in (IF impl = "json" THEN SeqsUpTo(PayloadEntries, MaxLinks)
                       ELSE SeqsUpTo(LinkPool, MaxLinks))
    /\ resolved = <<>>
    /\ passes = 0
    /\ folder = <<>> /\ hrefs = <<>> /\ pos = 1 /\ stage = "primary"
    /\ downloaded = <<>> /\ log = <<>>
    /\ monthIndex = 0 /\ spelling = "" /\ canonical = ""
    /\ trail = <<>> /\ failure = ""
    /\ OtherIdle

\* the filter applied to the list it is handed
FilterFirst ==
    /\ pc = "filter" /\ passes = 0
    /\ resolved' = FilterPass(impl, candidates, queryMonth, queryYear)
    /\ passes' = 1
    /\ UNCHANGED <<pipeVars, candidates, normVars, otherVars, runVars>>

\* the filter applied to its own result
FilterAgain ==
    /\ pc = "filter" /\ passes >= 1 /\ passes < MaxPasses
    /\ resolved' = FilterPass(impl, resolved, queryMonth, queryYear)
    /\ passes' = passes + 1
    /\ UNCHANGED <<pipeVars, candidates, normVars, otherVars, runVars>>

FilterNext == FilterFirst \/ FilterAgain

SpecFilter == FilterInit /\ [][FilterNext]_vars

(***************************************************************************)
(* The Period Normalizer on its own: a month typed in one of its spellings *)
(* goes through the entry point of a script.                               *)
(***************************************************************************)

UpperChar(c) ==
    IF \E k \in 1..26 : Lowers[k] = c
    THEN Upper[CHOOSE k \in 1..26 : Lowers[k] = c]
    ELSE c

\* str.upper
RECURSIVE UpperCase(_)
UpperCase(s) ==
    IF Len(s) <= 1 THEN UpperChar(s)
    ELSE UpperCase(Slice(s, 1, Len(s) \div 2)) \o UpperCase(Slice(s, Len(s) \div 2 + 1, Len(s)))

SpellingForms ==
    {"full", "lower", "upper", "abbr", "abbr_lower", "abbr_upper", "padded", "bare"}

\* month k written in the given form
Spelled(k, form) ==
    CASE form = "full" -> MonthNames[k]
      [] form = "lower" -> Lower(MonthNames[k])
      [] form = "upper" -> UpperCase(MonthNames[k])
      [] form = "abbr" -> Prefix(MonthNames[k], 3)
      [] form = "abbr_lower" -> Lower(Prefix(MonthNames[k], 3))
      [] form = "abbr_upper" -> UpperCase(Prefix(MonthNames[k], 3))
      [] form = "padded" -> IF k < 10 THEN "0" \o ToString(k) ELSE ToString(k)
      [] OTHER -> ToString(k)

NormInit ==
    /\ impl \in {"selenium", "wire", "json"}
    /\ pc = "typed"
    /\ monthIndex \in 1..12
    /\ \E form \in SpellingForms : spelling = Spelled(monthIndex, form)
    /\ canonical = ""
    /\ queryMonth = "" /\ queryYear = ""
    /\ folder = <<>> /\ hrefs = <<>> /\ pos = 1 /\ stage = "primary"
    /\ downloaded = <<>> /\ log = <<>>
    /\ candidates = <<>> /\ resolved = <<>> /\ passes = 0
    /\ trail = <<>> /\ failure = ""
    /\ OtherIdle

\* prompt_year_month of the selenium and wire scripts returns the month
NormalizePrompt ==
    /\ impl \in {"selenium", "wire"} /\ pc = "typed"
    /\ canonical' = PromptMonth(spelling)
    /\ pc' = "normalized"
    /\ UNCHANGED <<impl, queryMonth, queryYear, folder, hrefs, pos, stage, downloaded, log>>
    /\ UNCHANGED <<filterVars, monthIndex, spelling, otherVars, runVars>>

\* main of the json script calls normalize_month_input(args.month)
NormalizeJson ==
    /\ impl = "json" /\ pc = "typed"
    /\ canonical' = normalize_month_input(spelling)
    /\ pc' = "normalized"
    /\ UNCHANGED <<impl, queryMonth, queryYear, folder, hrefs, pos, stage, downloaded, log>>
    /\ UNCHANGED <<filterVars, monthIndex, spelling, otherVars, runVars>>

NormNext == NormalizePrompt \/ NormalizeJson

SpecNorm == NormInit /\ [][NormNext]_vars

(***************************************************************************)
(* The whole run of a script: from the period typed by the user, through  *)
(* the output folder, the browser session or page request and the         *)
(* controls of the page, to the download loops above and the exit.        *)
(***************************************************************************)

\* months and years typed at the prompt or passed as --month / --year
RunMonthsTyped == {"September", "foo", "Marzipan"}

RunYearsTyped == {"2025-2026", "FY25-26", "next"}

\* the debug files of the selenium script (debug_page_{ts}, debug_links_{ts})
\* and of the wire script (debug_noselects_{ts})
DebugPagePng == "debug_page_ts.png"

DebugPageHtml == "debug_page_ts.html"

DebugLinksPng == "debug_links_ts.png"

DebugLinksHtml == "debug_links_ts.html"

DebugNoSelectsHtml == "debug_noselects_ts.html"

DebugNoSelectsPng == "debug_noselects_ts.png"

\* the folder after an attempt to write a debug file
AfterDebugWrite(d, path, written) ==
    IF written THEN WriteFile(d, path, DebugFile) ELSE d

\* the browser session exists: webdriver.Chrome returned and quit was not called
BrowserOpen ==
    /\ \E i \in DOMAIN trail : trail[i] = "webdriver.Chrome"
    /\ \A i \in DOMAIN trail : trail[i] # "driver.quit"

RunInit ==
    /\ impl \in {"selenium", "wire", "json"}
    /\ pc = "start"
    /\ spelling \in RunMonthsTyped
    /\ queryYear \in RunYearsTyped
    /\ queryMonth = ""
    /\ folder = <<>> /\ hrefs = <<>> /\ pos = 1 /\ stage = "primary"
    /\ downloaded = <<>> /\ log = <<>>
    /\ candidates = <<>> /\ resolved = <<>> /\ passes = 0
    /\ monthIndex = 0 /\ canonical = ""
    /\ trail = <<>> /\ failure = ""
    /\ OtherIdle

\* __main__ (selenium, wire): prompt_year_month; the year goes on as typed
RunPrompt ==
    /\ impl \in {"selenium", "wire"} /\ pc = "start"
    /\ queryMonth' = PromptMonth(spelling)
    /\ pc' = "mkdir"
    /\ UNCHANGED <<impl, queryYear, folder, hrefs, pos, stage, downloaded, log>>
    /\ UNCHANGED <<filterVars, normVars, otherVars, runVars>>

\* the output folder made before the month is looked at
RunJsonArgsAfterMakedirs ==
    /\ impl = "json" /\ pc = "start"
    /\ trail' = Append(trail, "makedirs")
    /\ \E m \in { normalize_month_input(spelling) } :
         IF m = ValueError
         THEN failure' = "ValueError" /\ pc' = "ended" /\ queryMonth' = queryMonth
         ELSE failure' = failure /\ pc' = "mkdir" /\ queryMonth' = m
    /\ UNCHANGED <<impl, queryYear, folder, hrefs, pos, stage, downloaded, log>>
    /\ UNCHANGED <<filterVars, normVars, otherVars>>

\* main (json): normalize_month_input(args.month) raises ValueError or gives the
\* month; year_num is taken from args.year by the filter, which never raises
RunJsonArgs ==
    /\ impl = "json" /\ pc = "start"
    /\ \E m \in { normalize_month_input(spelling) } :
         IF m = ValueError
         THEN failure' = "ValueError" /\ pc' = "ended" /\ queryMonth' = queryMonth
         ELSE failure' = failure /\ pc' = "mkdir" /\ queryMonth' = m
    /\ UNCHANGED <<impl, queryYear, folder, hrefs, pos, stage, downloaded, log>>
    /\ UNCHANGED <<filterVars, normVars, otherVars, trail>>

\* ensure_folder(dest_folder) / os.makedirs(outdir, exist_ok=True)
EnsureFolder ==
    /\ pc = "mkdir"
    /\ trail' = Append(trail, "makedirs")
    /\ pc' = IF impl = "json" THEN "fetch_page" ELSE "browser"
    /\ UNCHANGED <<impl, queryMonth, queryYear, folder, hrefs, pos, stage, downloaded, log>>
    /\ UNCHANGED <<filterVars, normVars, otherVars, failure>>

\* driver = webdriver.Chrome(...), before the try: when it raises there is no
\* driver and the exception leaves scrape_and_download
StartBrowser ==
    /\ impl \in {"selenium", "wire"} /\ pc = "browser"
    /\ \E started \in BOOLEAN :
         IF started
         THEN trail' = Append(trail, "webdriver.Chrome") /\ pc' = "load" /\ failure' = failure
         ELSE trail' = trail /\ pc' = "ended" /\ failure' = "WebDriverException"
    /\ UNCHANGED <<impl, queryMonth, queryYear, folder, hrefs, pos, stage, downloaded, log>>
    /\ UNCHANGED <<filterVars, normVars, otherVars>>

\* driver.get(PAGE_URL), the first statement of the try
LoadPage ==
    /\ impl \in {"selenium", "wire"} /\ pc = "load"
    /\ trail' = Append(trail, "driver.get")
    /\ pc' = "controls"
    /\ UNCHANGED <<impl, queryMonth, queryYear, folder, hrefs, pos, stage, downloaded, log>>
    /\ UNCHANGED <<filterVars, normVars, otherVars, failure>>

\* a call on the driver that stands outside every inner try raises: driver.get,
\* find_elements and the reading of the options, the collection of the links,
\* and find_elements of wire's final attempt
DriverFails ==
    /\ impl \in {"selenium", "wire"}
    /\ \/ pc \in {"load", "controls", "links_wait", "extract"}
       \/ /\ impl = "wire" /\ pc = "download" /\ stage = "primary"
          /\ pos > Len(hrefs) /\ downloaded = <<>>
    /\ failure' = "WebDriverException"
    /\ pc' = "raised"
    /\ UNCHANGED <<impl, queryMonth, queryYear, folder, hrefs, pos, stage, downloaded, log>>
    /\ UNCHANGED <<filterVars, normVars, otherVars, trail>>

\* selenium: wait.until(presence of a select); on timeout the screenshot and
\* the page source are saved, each in its own try, and the exception is
\* raised again; else the selects are set as far as they match (a miss only
\* prints a warning) and the search button is clicked
SelWaitSelects ==
    /\ impl = "selenium" /\ pc = "controls"
    /\ \/ /\ pc' = "links_wait"
          /\ UNCHANGED <<folder, trail, failure>>
       \/ \E png_saved, html_written \in BOOLEAN :
          /\ trail' = trail \o <<"select_timeout", "save_screenshot", "write_html">>
          /\ folder' = AfterDebugWrite(AfterDebugWrite(folder, DebugPagePng, png_saved),
                                       DebugPageHtml, html_written)
          /\ failure' = "TimeoutException"
          /\ pc' = "raised"
    /\ UNCHANGED <<impl, queryMonth, queryYear, hrefs, pos, stage, downloaded, log>>
    /\ UNCHANGED <<filterVars, normVars, otherVars>>

\* the link wait of the selenium script re-raising like the select wait
SelWaitLinksRaising ==
    /\ impl = "selenium" /\ pc = "links_wait"
    /\ \/ /\ pc' = "extract"
          /\ UNCHANGED <<folder, trail, failure>>
       \/ \E png_saved, html_written \in BOOLEAN :
          /\ trail' = trail \o <<"links_timeout", "save_screenshot", "write_html">>
          /\ folder' = AfterDebugWrite(AfterDebugWrite(folder, DebugLinksPng, png_saved),
                                       DebugLinksHtml, html_written)
          /\ failure' = "TimeoutException"
          /\ pc' = "raised"
    /\ UNCHANGED <<impl, queryMonth, queryYear, hrefs, pos, stage, downloaded, log>>
    /\ UNCHANGED <<filterVars, normVars, otherVars>>

\* selenium: wait.until(links_present); on timeout the screenshot and the page
\* source are saved, each in its own try, and the run goes on to collect the
\* links that may be there
SelWaitLinks ==
    /\ impl = "selenium" /\ pc = "links_wait"
    /\ \/ /\ pc' = "extract"
          /\ UNCHANGED <<folder, trail, failure>>
       \/ \E png_saved, html_written \in BOOLEAN :
          /\ trail' = trail \o <<"links_timeout", "save_screenshot", "write_html">>
          /\ folder' = AfterDebugWrite(AfterDebugWrite(folder, DebugLinksPng, png_saved),
                                       DebugLinksHtml, html_written)
          /\ failure' = failure
          /\ pc' = "extract"
    /\ UNCHANGED <<impl, queryMonth, queryYear, hrefs, pos, stage, downloaded, log>>
    /\ UNCHANGED <<filterVars, normVars, otherVars>>

\* wire: cookie banner, monthly tab, frames, then the selects; with no select
\* found (also after set_year_month_controls) the page source is written with
\* a bare open(), the screenshot is taken in a try, and [] is returned; with
\* selects the values are set as far as they match, the recorded requests are
\* cleared and the search button is clicked
WireResolveControls ==
    /\ impl = "wire" /\ pc = "controls"
    /\ \/ /\ trail' = Append(trail, "requests.clear")
          /\ pc' = "extract"
          /\ UNCHANGED <<folder, failure>>
       \/ /\ trail' = trail \o <<"no_selects", "write_html">>
          /\ failure' = "OSError"
          /\ pc' = "raised"
          /\ folder' = folder
       \/ \E png_saved \in BOOLEAN :
          /\ trail' = trail \o <<"no_selects", "write_html", "save_screenshot">>
          /\ folder' = AfterDebugWrite(WriteFile(folder, DebugNoSelectsHtml, DebugFile),
                                       DebugNoSelectsPng, png_saved)
          /\ failure' = failure
          /\ pc' = "done"
    /\ UNCHANGED <<impl, queryMonth, queryYear, hrefs, pos, stage, downloaded, log>>
    /\ UNCHANGED <<filterVars, normVars, otherVars>>

\* main (json): requests.get and raise_for_status, outside any try; then
\* find_month_portfolio_content, whose exception is printed before sys.exit(1)
JsonFetchPage ==
    /\ impl = "json" /\ pc = "fetch_page"
    /\ trail' = Append(trail, "requests.get")
    /\ \E page \in {"payload", "http_error", "no_payload"} :
         CASE page = "payload" -> pc' = "extract" /\ failure' = failure
           [] page = "http_error" -> pc' = "ended" /\ failure' = "HTTPError"
           [] OTHER -> pc' = "ended" /\ failure' = "SystemExit(1)"
    /\ UNCHANGED <<impl, queryMonth, queryYear, folder, hrefs, pos, stage, downloaded, log>>
    /\ UNCHANGED <<filterVars, normVars, otherVars>>

\* driver.quit() at the end of the try only, not in a finally
DriverQuitOnReturn ==
    /\ impl \in {"selenium", "wire"} /\ pc \in {"done", "raised"} /\ BrowserOpen
    /\ trail' = IF pc = "done" THEN Append(trail, "driver.quit") ELSE trail
    /\ pc' = "ended"
    /\ UNCHANGED <<impl, queryMonth, queryYear, folder, hrefs, pos, stage, downloaded, log>>
    /\ UNCHANGED <<filterVars, normVars, otherVars, failure>>

\* "finally: driver.quit()": the return value or the exception goes on to
\* __main__ after it
DriverQuit ==
    /\ impl \in {"selenium", "wire"} /\ pc \in {"done", "raised"} /\ BrowserOpen
    /\ trail' = Append(trail, "driver.quit")
    /\ pc' = "ended"
    /\ UNCHANGED <<impl, queryMonth, queryYear, folder, hrefs, pos, stage, downloaded, log>>
    /\ UNCHANGED <<filterVars, normVars, otherVars, failure>>

\* main (json) returns, or sys.exit(0) with no match
JsonExit ==
    /\ impl = "json" /\ pc = "done"
    /\ pc' = "ended"
    /\ UNCHANGED <<impl, queryMonth, queryYear, folder, hrefs, pos, stage, downloaded, log>>
    /\ UNCHANGED <<filterVars, normVars, otherVars, runVars>>

RunNext ==
    \/ RunPrompt \/ RunJsonArgs \/ EnsureFolder \/ StartBrowser \/ LoadPage
    \/ DriverFails \/ SelWaitSelects \/ SelWaitLinks \/ WireResolveControls
    \/ JsonFetchPage \/ PipeNext \/ DriverQuit \/ JsonExit

SpecRun == RunInit /\ [][RunNext]_vars

\* the exit status of the process: an exception that leaves __main__ and
\* sys.exit(1) give a status other than 0
ExitStatus == IF failure = "" THEN 0 ELSE 1

(***************************************************************************)
(* download_file called twice at the same time on one folder (two runs of  *)
(* a script, or two threads of a caller): each call is the sequence of its *)
(* system calls, and the calls of the two interleave freely.               *)
(***************************************************************************)

\* the documents the concurrent calls fetch: two URLs with one base name
AllocUrls == {SeptemberUrl, OctoberUrl}

\* a call of download_file that has not begun
NewWorker(url) ==
    [at |-> "start", url |-> url, filename |-> "", out_path |-> "", counter |-> 1,
     outcome |-> ""]

AllocInit ==
    /\ impl \in {"selenium", "wire"}
    /\ pc = "concurrent"
    /\ folder \in { [n \in names |-> BeforeFile] : names \in SUBSET BeforeNames }
    /\ workers \in [1..2 -> { NewWorker(u) : u \in AllocUrls }]
    /\ queryMonth = "" /\ queryYear = ""
    /\ hrefs = <<>> /\ pos = 1 /\ stage = "primary"
    /\ downloaded = <<>> /\ log = <<>>
    /\ candidates = <<>> /\ resolved = <<>> /\ passes = 0
    /\ monthIndex = 0 /\ spelling = "" /\ canonical = ""
    /\ trail = <<>> /\ failure = ""
    /\ doc = NoDoc /\ frameCtx = 0 /\ foundYear = FALSE /\ foundMonth = FALSE
    /\ picked = <<>> /\ wireLog = <<>>
    /\ scriptTexts = <<>> /\ mpContent = NoContent

allocFrame == <<impl, pc, queryMonth, queryYear, hrefs, pos, stage, downloaded, log,
                filterVars, normVars, runVars, driveVars, embedVars>>

\* filename = os.path.basename(parsed.path) or the default; out_path is the
\* name in the folder; counter = 1
WorkerName ==
    \E k \in DOMAIN workers :
        /\ workers[k].at = "start"
        /\ \E fname \in { IF impl = "selenium" THEN SelFileName(workers[k].url)
                          ELSE WireFileName(workers[k].url) } :
             workers' = [workers EXCEPT ![k].at = "probe", ![k].filename = fname,
                                        ![k].out_path = fname]
        /\ UNCHANGED <<folder, allocFrame>>

\* one evaluation of "while os.path.exists(out_path)": the name is taken and
\* the next suffix is tried, or the name is free and the loop is left
WorkerProbe ==
    \E k \in DOMAIN workers :
        /\ workers[k].at = "probe"
        /\ workers' =
             IF workers[k].out_path \in DOMAIN folder
             THEN [workers EXCEPT
                     ![k].out_path = Suffixed(SplitExt(workers[k].filename)[1],
                                              workers[k].counter,
                                              SplitExt(workers[k].filename)[2]),
                     ![k].counter = workers[k].counter + 1]
             ELSE [workers EXCEPT ![k].at = "get"]
        /\ UNCHANGED <<folder, allocFrame>>

\* session.get and raise_for_status: an error status ends the call before the
\* file is opened
WorkerGet ==
    \E k \in DOMAIN workers, outcome \in FetchOutcomes :
        /\ workers[k].at = "get"
        /\ workers' = [workers EXCEPT
                         ![k].at = IF outcome = "http_error" THEN "failed" ELSE "open",
                         ![k].outcome = outcome]
        /\ UNCHANGED <<folder, allocFrame>>

\* open(out_path, "wb"): the file is created, or emptied when it is there
WorkerOpen ==
    \E k \in DOMAIN workers :
        /\ workers[k].at = "open"
        /\ folder' = WriteFile(folder, workers[k].out_path,
                               [src |-> workers[k].url, whole |-> FALSE])
        /\ workers' = [workers EXCEPT ![k].at = "write"]
        /\ UNCHANGED allocFrame

\* the chunks are written and the path returned, or iter_content raises
WorkerWrite ==
    \E k \in DOMAIN workers :
        /\ workers[k].at = "write"
        /\ IF workers[k].outcome = "ok"
           THEN /\ folder' = WriteFile(folder, workers[k].out_path,
                                       [src |-> workers[k].url, whole |-> TRUE])
                /\ workers' = [workers EXCEPT ![k].at = "returned"]
           ELSE /\ folder' = folder
                /\ workers' = [workers EXCEPT ![k].at = "failed"]
        /\ UNCHANGED allocFrame

AllocNext == WorkerName \/ WorkerProbe \/ WorkerGet \/ WorkerOpen \/ WorkerWrite

SpecAlloc == AllocInit /\ [][AllocNext]_vars

(***************************************************************************)
(* Embedded JSON: extract_json_object, json.loads and                      *)
(* find_month_portfolio_content over the texts of the script tags.         *)
(***************************************************************************)

\* marker of find_month_portfolio_content
Marker == "monthPortfolioContent"

\* how far before the marker the search for the opening brace starts
BackUp == 100

\* the position of the brace that brings the depth back to 0, scanning from
\* position j at the given depth; 0 when the text ends first
RECURSIVE CloseOf(_, _, _)
CloseOf(text, j, depth) ==
    IF j > Len(text) THEN 0
    ELSE IF CharAt(text, j) = "{" THEN CloseOf(text, j + 1, depth + 1)
    ELSE IF CharAt(text, j) = "}"
         THEN (IF depth = 1 THEN j ELSE CloseOf(text, j + 1, depth - 1))
    ELSE CloseOf(text, j + 1, depth)

\* extract_json_object: the text from the first "{" at or after start_at to
\* the brace that balances it; ValueError when there is no such brace
extract_json_object(text, start_at) ==
    IF Find(text, "{", start_at) = 0 THEN ValueError
    ELSE IF CloseOf(text, Find(text, "{", start_at), 0) = 0 THEN ValueError
    ELSE Slice(text, Find(text, "{", start_at), CloseOf(text, Find(text, "{", start_at), 0))

\* the first position at or after p that holds no blank
RECURSIVE SkipBlanks(_, _)
SkipBlanks(text, p) ==
    IF p <= Len(text) /\ CharAt(text, p) = " " THEN SkipBlanks(text, p + 1) ELSE p

\* the last position of the run of digits that starts at p
RECURSIVE DigitsEnd(_, _)
DigitsEnd(text, p) ==
    IF CharAt(text, p + 1) \in Digits THEN DigitsEnd(text, p + 1) ELSE p

\* a parse that failed
NoParse == [close |-> 0, members |-> <<>>]

\* The JSON grammar as json.loads reads it, for texts without escapes and
\* with whole numbers: JsonValueEnd is the last position of the value that
\* starts at p (0 when there is none), JsonMembersFrom reads "key": value
\* pairs up to the closing brace and JsonElementsFrom values up to the
\* closing bracket.
RECURSIVE JsonValueEnd(_, _), JsonMembersFrom(_, _, _), JsonElementsFrom(_, _)
JsonObjectAt(text, p) ==
    IF CharAt(text, SkipBlanks(text, p + 1)) = "}"
    THEN [close |-> SkipBlanks(text, p + 1), members |-> <<>>]
    ELSE JsonMembersFrom(text, SkipBlanks(text, p + 1), <<>>)

JsonValueEnd(text, p) ==
    IF CharAt(text, p) = "{" THEN JsonObjectAt(text, p).close
    ELSE IF CharAt(text, p) = "["
         THEN (IF CharAt(text, SkipBlanks(text, p + 1)) = "]"
               THEN SkipBlanks(text, p + 1)
               ELSE JsonElementsFrom(text, SkipBlanks(text, p + 1)))
    ELSE IF CharAt(text, p) = "\"" THEN Find(text, "\"", p + 1)
    ELSE IF CharAt(text, p) \in Digits THEN DigitsEnd(text, p)
    ELSE IF Slice(text, p, p + 3) \in {"true", "null"} THEN p + 3
    ELSE IF Slice(text, p, p + 4) = "false" THEN p + 4
    ELSE 0

JsonMembersFrom(text, p, seen) ==
    IF CharAt(text, p) # "\"" \/ Find(text, "\"", p + 1) = 0 THEN NoParse
    ELSE \* the key ends at kq, the value runs from vs to ve
         LET kq == Find(text, "\"", p + 1)
             co == SkipBlanks(text, kq + 1)
             vs == SkipBlanks(text, co + 1)
             ve == JsonValueEnd(text, vs)
             nx == SkipBlanks(text, ve + 1)
             member == [key |-> Slice(text, p + 1, kq - 1), from |-> vs, to |-> ve]
         IN  IF CharAt(text, co) # ":" \/ ve = 0 THEN NoParse
             ELSE IF CharAt(text, nx) = "}"
                  THEN [close |-> nx, members |-> Append(seen, member)]
             ELSE IF CharAt(text, nx) = ","
                  THEN JsonMembersFrom(text, SkipBlanks(text, nx + 1), Append(seen, member))
             ELSE NoParse

JsonElementsFrom(text, p) ==
    LET ve == JsonValueEnd(text, p)
        nx == SkipBlanks(text, ve + 1)
    IN  IF ve = 0 THEN 0
        ELSE IF CharAt(text, nx) = "]" THEN nx
        ELSE IF CharAt(text, nx) = "," THEN JsonElementsFrom(text, SkipBlanks(text, nx + 1))
        ELSE 0

\* json.loads of a text that starts with "{": the members of the object, each
\* with the span of its value; NoParse when json.loads raises (the text is no
\* JSON document, or something follows the object)
JsonLoads(text) ==
    IF CharAt(text, SkipBlanks(text, 1)) # "{" THEN NoParse
    ELSE IF JsonObjectAt(text, SkipBlanks(text, 1)).close = 0 THEN NoParse
    ELSE IF SkipBlanks(text, JsonObjectAt(text, SkipBlanks(text, 1)).close + 1) <= Len(text)
         THEN NoParse
    ELSE JsonObjectAt(text, SkipBlanks(text, 1))

\* json.loads returns
Parses(text) == JsonLoads(text).close # 0

\* key in data, for the members of a parsed object
HasKey(members, key) == \E i \in DOMAIN members : members[i].key = key

\* the text of data[key]: of two members with one key the later counts
ValueText(text, members, key) ==
    LET i == Max({ j \in DOMAIN members : members[j].key = key })
    IN  Slice(text, members[i].from, members[i].to)

\* obj_text of find_month_portfolio_content: the object searched from 100
\* characters before the marker (from the start of a shorter text)
ObjText(text) ==
    extract_json_object(text, Max({1, Find(text, Marker, 1) - BackUp}))

\* what one script gives: returned tells whether the function returns from it,
\* value is the text of what it returns
NotFromScript == [returned |-> FALSE, value |-> ""]

\* the except clause: the object after the colon that follows the quoted key
Fallback(text) ==
    LET key_idx == Find(text, "\"" \o Marker \o "\"", 1)
        colon_idx == Find(text, ":", key_idx)
        obj == extract_json_object(text, colon_idx)
    IN  IF key_idx = 0 \/ colon_idx = 0 THEN NotFromScript
        ELSE IF obj = ValueError \/ ~Parses(obj) THEN NotFromScript
        ELSE [returned |-> TRUE, value |-> obj]

\* the lookup under StatutoryDisclosures, inner being the text of that value:
\* an object is searched for the key; in a string the test "in" is a substring
\* test and the indexing that follows raises; a number, true, false or null
\* make "in" raise; a list (none of the texts holds one with the marker as an
\* element) lets the test fail
NestedLookup(text, inner) ==
    IF CharAt(inner, 1) = "{"
    THEN (IF HasKey(JsonLoads(inner).members, Marker)
          THEN [returned |-> TRUE, value |-> ValueText(inner, JsonLoads(inner).members, Marker)]
          ELSE NotFromScript)
    ELSE IF CharAt(inner, 1) = "\""
         THEN (IF Contains(inner, Marker) THEN Fallback(text) ELSE NotFromScript)
    ELSE IF CharAt(inner, 1) = "[" THEN NotFromScript
    ELSE Fallback(text)

\* the body of the loop of find_month_portfolio_content for a script that
\* holds the marker
TryScript(text) ==
    IF ObjText(text) = ValueError \/ ~Parses(ObjText(text)) THEN Fallback(text)
    ELSE LET obj == ObjText(text)
             data == JsonLoads(obj).members
         IN  IF HasKey(data, Marker)
             THEN [returned |-> TRUE, value |-> ValueText(obj, data, Marker)]
             ELSE IF HasKey(data, "StatutoryDisclosures")
                  THEN NestedLookup(text, ValueText(obj, data, "StatutoryDisclosures"))
             ELSE NotFromScript

\* the most script tags a page holds
MaxScripts == 2

\* texts of script tags ("" for a tag without text)
ScriptPool ==
    { "",
      "console.log(\"ready\");",
      "window.__DATA__ = {\"monthPortfolioContent\":{\"files\":[]}};",
      "var cfg = {\"a\":1}; var data = {\"monthPortfolioContent\":{\"files\":[1]}};",
      "{\"StatutoryDisclosures\":{\"monthPortfolioContent\":{\"files\":[2]}}}",
      "init({a:1}, {\"monthPortfolioContent\": {\"files\":[3]}})",
      "var key = \"monthPortfolioContent\";",
      "{\"monthPortfolioContent\":{\"files\":[}" }

EmbedInit ==
    /\ impl = "json"
    /\ pc = "scan"
    /\ scriptTexts \in SeqsUpTo(ScriptPool, MaxScripts)
    /\ mpContent = NoContent
    /\ pos = 1
    /\ queryMonth = "" /\ queryYear = ""
    /\ folder = <<>> /\ hrefs = <<>> /\ stage = "primary"
    /\ downloaded = <<>> /\ log = <<>>
    /\ candidates = <<>> /\ resolved = <<>> /\ passes = 0
    /\ monthIndex = 0 /\ spelling = "" /\ canonical = ""
    /\ trail = <<>> /\ failure = ""
    /\ workers = <<>>
    /\ doc = NoDoc /\ frameCtx = 0 /\ foundYear = FALSE /\ foundMonth = FALSE
    /\ picked = <<>> /\ wireLog = <<>>

embedFrame == <<impl, queryMonth, queryYear, folder, hrefs, stage, downloaded, log,
                filterVars, normVars, runVars, allocVars, driveVars, scriptTexts>>

\* "if not s.string: continue" and a script without the marker
EmbedSkip ==
    /\ pc = "scan" /\ pos <= Len(scriptTexts)
    /\ scriptTexts[pos] = "" \/ ~Contains(scriptTexts[pos], Marker)
    /\ pos' = pos + 1
    /\ UNCHANGED <<pc, mpContent, embedFrame>>

\* a script with the marker: the function returns from it or goes on
EmbedTry ==
    /\ pc = "scan" /\ pos <= Len(scriptTexts)
    /\ scriptTexts[pos] # "" /\ Contains(scriptTexts[pos], Marker)
    /\ \E got \in { TryScript(scriptTexts[pos]) } :
       \E obj_text \in { [script |-> pos, text |-> ObjText(scriptTexts[pos])] } :
         IF got.returned
         THEN /\ mpContent' = [status |-> "returned", value |-> got.value,
                               tried |-> Append(mpContent.tried, obj_text)]
              /\ pc' = "found"
              /\ pos' = pos
         ELSE /\ mpContent' = [mpContent EXCEPT !.tried = Append(@, obj_text)]
              /\ pc' = pc
              /\ pos' = pos + 1
    /\ UNCHANGED embedFrame

\* raise RuntimeError('monthPortfolioContent not found in any <script> tag')
EmbedNotFound ==
    /\ pc = "scan" /\ pos > Len(scriptTexts)
    /\ mpContent' = [mpContent EXCEPT !.status = "RuntimeError"]
    /\ pc' = "not_found"
    /\ UNCHANGED <<pos, embedFrame>>

EmbedNext == EmbedSkip \/ EmbedTry \/ EmbedNotFound

SpecEmbed == EmbedInit /\ [][EmbedNext]_vars

(***************************************************************************)
(* Driving the page: overlay and navigation, frames, year/month controls,  *)
(* submission and extraction (scrape_and_download of the selenium and wire *)
(* scripts up to the download loop).  A select is the sequence of the      *)
(* texts of its options as WebElement.text gives them.                     *)
(***************************************************************************)

\* Select.select_by_visible_text: the index of the first option whose text,
\* blanks at its ends apart, is the given text; 0 when NoSuchElementException
\* is raised
select_by_visible_text(options, wanted) ==
    IF \E i \in DOMAIN options : Strip(options[i]) = wanted
    THEN Min({ i \in DOMAIN options : Strip(options[i]) = wanted })
    ELSE 0

\* any(str(year) == opt or str(year) in opt for opt in option_texts)
YearWanted(options, wanted) ==
    \E i \in DOMAIN options :
        /\ Strip(options[i]) # ""
        /\ wanted = Strip(options[i]) \/ Contains(Strip(options[i]), wanted)

\* the text of the option the year branch selects: the option with exactly
\* the year; when select_by_visible_text raises, the first option that holds
\* the year; "" when nothing is selected
YearPick(options, wanted) ==
    IF select_by_visible_text(options, wanted) # 0
    THEN options[select_by_visible_text(options, wanted)]
    ELSE IF \E i \in DOMAIN options : Contains(options[i], wanted)
         THEN options[Min({ i \in DOMAIN options : Contains(options[i], wanted) })]
    ELSE ""

\* any(month.lower() == opt.lower() or month.lower() in opt.lower() ...)
MonthWanted(options, wanted) ==
    \E i \in DOMAIN options :
        /\ Strip(options[i]) # ""
        /\ \/ Lower(wanted) = Lower(Strip(options[i]))
           \/ Contains(Lower(Strip(options[i])), Lower(wanted))

\* the first option that holds the month, whatever option equals it
MonthPickFirstContaining(options, wanted) ==
    IF \E i \in DOMAIN options : Contains(Lower(Strip(options[i])), Lower(Strip(wanted)))
    THEN options[Min({ i \in DOMAIN options :
                         Contains(Lower(Strip(options[i])), Lower(Strip(wanted))) })]
    ELSE ""

\* matched of the month branch: the first option equal to the month, letter
\* case apart; without one, the first option that holds the month; "" when
\* there is neither
MonthPick(options, wanted) ==
    IF \E i \in DOMAIN options : Lower(Strip(options[i])) = Lower(Strip(wanted))
    THEN options[Min({ i \in DOMAIN options : Lower(Strip(options[i])) = Lower(Strip(wanted)) })]
    ELSE IF \E i \in DOMAIN options : Contains(Lower(Strip(options[i])), Lower(Strip(wanted)))
         THEN options[Min({ i \in DOMAIN options :
                              Contains(Lower(Strip(options[i])), Lower(Strip(wanted))) })]
    ELSE ""

\* a select the loop gave no role
NoRole == [role |-> "", option |-> ""]

\* "for s in selects": per select, the role it was given and the text of the
\* option selected in it; fy and fm are found_year and found_month so far
RECURSIVE ChooseFrom(_, _, _, _, _, _)
ChooseFrom(selects, k, year, month, fy, fm) ==
    IF k > Len(selects) THEN [found_year |-> fy, found_month |-> fm, roles |-> <<>>]
    ELSE IF ~fy /\ YearWanted(selects[k], year)
         THEN [ChooseFrom(selects, k + 1, year, month, TRUE, fm) EXCEPT
                 !.roles = <<[role |-> "year", option |-> YearPick(selects[k], year)]>> \o @]
    ELSE IF ~fm /\ MonthWanted(selects[k], month) /\ MonthPick(selects[k], month) # ""
         THEN [ChooseFrom(selects, k + 1, year, month, fy, TRUE) EXCEPT
                 !.roles = <<[role |-> "month", option |-> MonthPick(selects[k], month)]>> \o @]
    ELSE [ChooseFrom(selects, k + 1, year, month, fy, fm) EXCEPT !.roles = <<NoRole>> \o @]

\* the loop over the frames that leaves the context in the frame it looked
\* at last
RECURSIVE FrameLoopNoRestore(_, _, _)
FrameLoopNoRestore(frames, k, ctx) ==
    IF k > Len(frames) THEN [result |-> FALSE, ctx |-> ctx]
    ELSE IF ~frames[k].enter THEN FrameLoopNoRestore(frames, k + 1, ctx)
    ELSE IF frames[k].selects # <<>> THEN [result |-> TRUE, ctx |-> k]
    ELSE FrameLoopNoRestore(frames, k + 1, k)

SwitchToFrameNoRestore(page) ==
    IF page.main # <<>> THEN [result |-> TRUE, ctx |-> 0]
    ELSE FrameLoopNoRestore(page.frames, 1, 0)

\* "for f in frames" of switch_to_frame_if_needed: a frame is entered; with a
\* select in it the function returns there; without one, and when entering
\* raises, switch_to.default_content() is called and the next frame tried
RECURSIVE FrameLoop(_, _, _)
FrameLoop(frames, k, ctx) ==
    IF k > Len(frames) THEN [result |-> FALSE, ctx |-> ctx]
    ELSE IF ~frames[k].enter THEN FrameLoop(frames, k + 1, 0)
    ELSE IF frames[k].selects # <<>> THEN [result |-> TRUE, ctx |-> k]
    ELSE FrameLoop(frames, k + 1, 0)

\* switch_to_frame_if_needed: what it returns and the context it leaves
switch_to_frame_if_needed(page) ==
    IF page.main # <<>> THEN [result |-> TRUE, ctx |-> 0]
    ELSE FrameLoop(page.frames, 1, 0)

\* find_selects_in_current_context
find_selects_in_current_context(page, ctx) ==
    IF ctx = 0 THEN page.main ELSE page.frames[ctx].selects

\* the most selects a document or a frame holds, and the most frames a page holds
MaxSelects == 2

\* selects of the pages: years with an option that only holds the year before
\* the one that equals it; months likewise; a select for neither; a select
\* whose one option holds both
YearSelect == <<"2025-2026 (provisional)", "2025-2026", "2024-2025">>

MonthSelect == <<"All months", "September 2025", "SEPTEMBER", "October">>

SchemeSelect == <<"Equity", "Debt">>

PeriodSelect == <<"September 2025-2026">>

SelectPool == {YearSelect, MonthSelect, SchemeSelect, PeriodSelect}

\* iframes: one without selects, one with the two selects, one that holds a
\* select but cannot be entered (switch_to.frame raises)
FramePool ==
    { [selects |-> <<>>, enter |-> TRUE],
      [selects |-> <<YearSelect, MonthSelect>>, enter |-> TRUE],
      [selects |-> <<MonthSelect>>, enter |-> FALSE] }

\* The pages: main holds the selects of the main document, frames its
\* iframes, fields the year/month fields that are no select and that
\* set_year_month_controls can set, late the selects the page shows once such
\* a field was set.
DocPool ==
    { [main |-> selects, frames |-> <<>>, fields |-> {}, late |-> <<>>] :
        selects \in SeqsUpTo(SelectPool, MaxSelects) }
    \cup
    { [main |-> <<>>, frames |-> frames, fields |-> {}, late |-> <<>>] :
        frames \in SeqsUpTo(FramePool, MaxSelects) }
    \cup
    { [main |-> <<>>, frames |-> <<>>, fields |-> fields, late |-> late] :
        fields \in {{"year"}, {"year", "month"}},
        late \in {<<>>, <<YearSelect, MonthSelect>>} }

\* the years typed: one that an option equals, one that options only hold
DriveYears == {"2025-2026", "2025"}

\* a request the browser made while the page loaded, and one made by the
\* click on the monthly tab: both answered with an Excel file
LoadRequest ==
    [url |-> ArchiveUrl, hasResponse |-> TRUE, ctype |-> "application/vnd.ms-excel",
     body |-> "", parses |-> FALSE, leaves |-> <<>>, phase |-> "load"]

NavRequest ==
    [url |-> "https://www.hdfcfund.com/files/factsheet.xlsx", hasResponse |-> TRUE,
     ctype |-> "application/vnd.ms-excel", body |-> "", parses |-> FALSE,
     leaves |-> <<>>, phase |-> "nav"]

\* the most requests the browser makes during the settle wait
MaxRequests == 1

\* the requests the browser may make after the clear
SearchRequests ==
    { [url |-> SeptemberUrl, hasResponse |-> TRUE, ctype |-> "application/vnd.ms-excel",
       body |-> "", parses |-> FALSE, leaves |-> <<>>, phase |-> "search"],
      [url |-> OctoberUrl, hasResponse |-> FALSE, ctype |-> "",
       body |-> "", parses |-> FALSE, leaves |-> <<>>, phase |-> "search"],
      [url |-> "https://www.hdfcfund.com/api/latest", hasResponse |-> TRUE,
       ctype |-> "application/json",
       body |-> "{\"latest\":\"https://www.hdfcfund.com/files/October2025/report.xlsx\"}",
       parses |-> TRUE, leaves |-> <<OctoberUrl>>, phase |-> "search"] }

\* how an element lookup, visibility check and click of a best-effort step
\* can end
StepOutcomes == {"clicked", "nothing", "raised"}

DriveInit ==
    /\ impl \in {"selenium", "wire"}
    /\ pc = "load"
    /\ doc \in DocPool
    /\ queryYear \in DriveYears
    /\ queryMonth = "September"
    /\ frameCtx = 0 /\ foundYear = FALSE /\ foundMonth = FALSE
    /\ picked = <<>> /\ wireLog = <<>>
    /\ folder = <<>> /\ hrefs = <<>> /\ pos = 1 /\ stage = "primary"
    /\ downloaded = <<>> /\ log = <<>>
    /\ candidates = <<>> /\ resolved = <<>> /\ passes = 0
    /\ monthIndex = 0 /\ spelling = "" /\ canonical = ""
    /\ trail = <<>> /\ failure = ""
    /\ workers = <<>>
    /\ scriptTexts = <<>> /\ mpContent = NoContent

driveFrame == <<impl, queryMonth, queryYear, pos, stage, downloaded, log,
                filterVars, normVars, allocVars, embedVars>>

\* driver.get(PAGE_URL); selenium-wire records what the page requests
DriveLoad ==
    /\ pc = "load"
    /\ trail' = Append(trail, "driver.get")
    /\ wireLog' = IF impl = "wire" THEN Append(wireLog, LoadRequest) ELSE wireLog
    /\ pc' = IF impl = "wire" THEN "cookie" ELSE "selects"
    /\ UNCHANGED <<doc, frameCtx, foundYear, foundMonth, picked, folder, hrefs, failure,
                   driveFrame>>

\* an exception of the click on the overlay leaves attempt_close_cookie_banner
CloseCookieBannerRaising ==
    /\ impl = "wire" /\ pc = "cookie"
    /\ \E outcome \in StepOutcomes :
         /\ trail' = Append(trail, "cookie_banner:" \o outcome)
         /\ pc' = IF outcome = "raised" THEN "raised" ELSE "monthly"
         /\ failure' = IF outcome = "raised" THEN "WebDriverException" ELSE failure
    /\ UNCHANGED <<doc, frameCtx, foundYear, foundMonth, picked, wireLog, folder, hrefs,
                   driveFrame>>

\* attempt_close_cookie_banner: find_elements, is_displayed and click are all
\* inside try blocks; whatever they do the function returns
CloseCookieBanner ==
    /\ impl = "wire" /\ pc = "cookie"
    /\ \E outcome \in StepOutcomes :
         trail' = Append(trail, "cookie_banner:" \o outcome)
    /\ pc' = "monthly"
    /\ UNCHANGED <<doc, frameCtx, foundYear, foundMonth, picked, wireLog, folder, hrefs,
                   failure, driveFrame>>

\* "try: clicked_month = click_monthly_tab(driver) except: clicked_month =
\* False": a click makes the browser request the view
ClickMonthlyTab ==
    /\ impl = "wire" /\ pc = "monthly"
    /\ \E outcome \in StepOutcomes :
         /\ trail' = Append(trail, "monthly_tab:" \o outcome)
         /\ wireLog' = IF outcome = "clicked" THEN Append(wireLog, NavRequest) ELSE wireLog
         /\ pc' = IF outcome = "clicked" THEN "frames" ELSE "portfolio"
    /\ UNCHANGED <<doc, frameCtx, foundYear, foundMonth, picked, folder, hrefs, failure,
                   driveFrame>>

\* "if not clicked_month": the click on a Portfolio element and the second
\* click_monthly_tab, inside try blocks
ClickPortfolio ==
    /\ impl = "wire" /\ pc = "portfolio"
    /\ \E outcome \in StepOutcomes :
         /\ trail' = Append(trail, "portfolio:" \o outcome)
         /\ wireLog' = IF outcome = "clicked" THEN Append(wireLog, NavRequest) ELSE wireLog
    /\ pc' = "frames"
    /\ UNCHANGED <<doc, frameCtx, foundYear, foundMonth, picked, folder, hrefs, failure,
                   driveFrame>>

\* switched = switch_to_frame_if_needed(driver)
DriveSwitchFrame ==
    /\ impl = "wire" /\ pc = "frames"
    /\ frameCtx' = switch_to_frame_if_needed(doc).ctx
    /\ trail' = Append(trail, "switch_to_frame_if_needed")
    /\ pc' = "selects"
    /\ UNCHANGED <<doc, foundYear, foundMonth, picked, wireLog, folder, hrefs, failure,
                   driveFrame>>

\* the wait for a select and find_elements (selenium): without a select the
\* wait times out and the exception is raised again
SelFindSelects ==
    /\ impl = "selenium" /\ pc = "selects"
    /\ IF doc.main = <<>>
       THEN /\ trail' = trail \o <<"select_timeout", "save_screenshot", "write_html">>
            /\ failure' = "TimeoutException"
            /\ pc' = "raised"
       ELSE /\ trail' = trail
            /\ failure' = failure
            /\ pc' = "choose"
    /\ UNCHANGED <<doc, frameCtx, foundYear, foundMonth, picked, wireLog, folder, hrefs,
                   driveFrame>>

\* "selects = find_selects_in_current_context(driver); if not selects:": the
\* heuristic controls are tried and, when one was set, the selects looked for
\* again; "if not selects:" a second time decides between the abort and the
\* select loop
WireFindSelects ==
    /\ impl = "wire" /\ pc = "selects"
    /\ IF find_selects_in_current_context(doc, frameCtx) # <<>>
       THEN /\ trail' = trail /\ doc' = doc /\ pc' = "choose"
       ELSE /\ trail' = Append(trail, "set_year_month_controls")
            /\ doc' = IF doc.fields # {} THEN [doc EXCEPT !.main = doc.late] ELSE doc
            /\ pc' = IF doc.fields # {} /\ doc.late # <<>> THEN "choose" ELSE "abort"
    /\ UNCHANGED <<frameCtx, foundYear, foundMonth, picked, wireLog, folder, hrefs,
                   failure, driveFrame>>

\* "No <select> elements found ... Saving debug and aborting.": the page source
\* is written outside any try, the screenshot inside one; return []
WireAbortNoSelects ==
    /\ impl = "wire" /\ pc = "abort"
    /\ \E html_written \in BOOLEAN, png_saved \in BOOLEAN :
         IF ~html_written
         THEN /\ trail' = trail \o <<"no_selects", "write_html">>
              /\ failure' = "OSError"
              /\ folder' = folder
              /\ pc' = "raised"
         ELSE /\ trail' = trail \o <<"no_selects", "write_html", "save_screenshot">>
              /\ failure' = failure
              /\ folder' = AfterDebugWrite(WriteFile(folder, DebugNoSelectsHtml, DebugFile),
                                           DebugNoSelectsPng, png_saved)
              /\ pc' = "done"
    /\ UNCHANGED <<doc, frameCtx, foundYear, foundMonth, picked, wireLog, hrefs, driveFrame>>

\* the run gives up when the loop did not find both selects
ChooseOptionsAbortPartial ==
    /\ pc = "choose"
    /\ \E got \in { ChooseFrom(find_selects_in_current_context(doc, frameCtx), 1,
                               queryYear, queryMonth, FALSE, FALSE) } :
         /\ foundYear' = got.found_year
         /\ foundMonth' = got.found_month
         /\ picked' = got.roles
         /\ pc' = IF got.found_year /\ got.found_month
                  THEN (IF impl = "wire" THEN "clear" ELSE "submit")
                  ELSE "done"
    /\ trail' = Append(trail, "select_loop")
    /\ UNCHANGED <<doc, frameCtx, wireLog, folder, hrefs, failure, driveFrame>>

\* "for s in selects" and "if not (found_year and found_month)": the warning
\* is printed and the run goes on
ChooseOptions ==
    /\ pc = "choose"
    /\ \E got \in { ChooseFrom(find_selects_in_current_context(doc, frameCtx), 1,
                               queryYear, queryMonth, FALSE, FALSE) } :
         /\ foundYear' = got.found_year
         /\ foundMonth' = got.found_month
         /\ picked' = got.roles
    /\ trail' = Append(trail, "select_loop")
    /\ pc' = IF impl = "wire" THEN "clear" ELSE "submit"
    /\ UNCHANGED <<doc, frameCtx, wireLog, folder, hrefs, failure, driveFrame>>

\* the requests recorded so far stay
ClearRequestsKeeps ==
    /\ impl = "wire" /\ pc = "clear"
    /\ wireLog' = wireLog
    /\ trail' = Append(trail, "requests.clear")
    /\ pc' = "submit"
    /\ UNCHANGED <<doc, frameCtx, foundYear, foundMonth, picked, folder, hrefs, failure,
                   driveFrame>>

\* driver.requests.clear()
ClearRequests ==
    /\ impl = "wire" /\ pc = "clear"
    /\ wireLog' = <<>>
    /\ trail' = Append(trail, "requests.clear")
    /\ pc' = "submit"
    /\ UNCHANGED <<doc, frameCtx, foundYear, foundMonth, picked, folder, hrefs, failure,
                   driveFrame>>

\* the search for a search, submit or filter button and the click on it, all
\* inside try blocks (whether a button was clicked changes nothing later)
ClickSearch ==
    /\ pc = "submit"
    /\ trail' = Append(trail, "click_search")
    /\ pc' = "settle"
    /\ UNCHANGED <<doc, frameCtx, foundYear, foundMonth, picked, wireLog, folder, hrefs,
                   failure, driveFrame>>

\* time.sleep(6) (wire), time.sleep(2) (selenium): meanwhile the browser makes
\* its requests and selenium-wire records them
DriveSettle ==
    /\ pc = "settle"
    /\ \E requests \in SeqsUpTo(SearchRequests, MaxRequests) :
         wireLog' = IF impl = "wire" THEN wireLog \o requests ELSE wireLog
    /\ trail' = Append(trail, "time.sleep")
    /\ pc' = "extract"
    /\ UNCHANGED <<doc, frameCtx, foundYear, foundMonth, picked, folder, hrefs, failure,
                   driveFrame>>

\* found_urls = extract_urls_from_requests(driver) (wire); the anchors and
\* onclick elements of the page (selenium)
DriveExtract ==
    /\ pc = "extract"
    /\ IF impl = "wire"
       THEN hrefs' = AsCandidates(extract_urls_from_requests(wireLog))
       ELSE \E found \in SelPages : hrefs' = AsCandidates(found)
    /\ trail' = Append(trail, "extract")
    /\ pc' = "collected"
    /\ UNCHANGED <<doc, frameCtx, foundYear, foundMonth, picked, wireLog, folder, failure,
                   driveFrame>>

DriveNext ==
    \/ DriveLoad \/ CloseCookieBanner \/ ClickMonthlyTab \/ ClickPortfolio
    \/ DriveSwitchFrame \/ SelFindSelects \/ WireFindSelects \/ WireAbortNoSelects
    \/ ChooseOptions \/ ClearRequests \/ ClickSearch \/ DriveSettle \/ DriveExtract

SpecDrive == DriveInit /\ [][DriveNext]_vars

(***************************************************************************)
(* Properties.                                                             *)
(***************************************************************************)

FetchErrors == {"http_error", "stream_error"}

\* the passes of the log that belong to the given loop
StageLog(which) == SelectSeq(log, LAMBDA entry : entry.stage = which)

\* the paths of the passes that ended well, in order
RECURSIVE OkPaths(_)
OkPaths(entries) ==
    IF entries = <<>> THEN <<>>
    ELSE (IF Head(entries).outcome = "ok" THEN <<Head(entries).path>> ELSE <<>>)
         \o OkPaths(Tail(entries))

\* the folder was empty when the run began
StartedEmpty == \A f \in DOMAIN folder : folder[f] # BeforeFile

\* every pass of the log asked for one and the same URL
SameUrlThroughout == \A i \in DOMAIN log : log[i].url = log[1].url

\* the k-th name of the sequence report.xlsx, report(1).xlsx, report(2).xlsx, ...
ReportName(k) == IF k = 0 THEN "report.xlsx" ELSE "report(" \o ToString(k) \o ").xlsx"

\* C1: a file that is in the destination folder when a step of a run begins is
\* still there after the step, under the same name and with the same content:
\* no fetch opens an existing file for writing.
C1_ExistingFilesUntouched ==
    [][\A f \in DOMAIN folder : f \in DOMAIN folder' /\ folder'[f] = folder[f]]_vars

\* a fetch whose file name was taken went to the suffixed name and the file
\* that had the name still holds what it held
C1_Witness ==
    /\ "report.xlsx" \in DOMAIN folder /\ folder["report.xlsx"] = BeforeFile
    /\ \E i \in DOMAIN log :
         /\ log[i].outcome = "ok" /\ log[i].path # "report.xlsx"
         /\ log[i].path \in DOMAIN folder /\ folder[log[i].path].src = log[i].url

C4_BatchSurvivesFailure ==
    /\ pc \in {"download", "done", "raised"}
       => /\ Len(StageLog(stage)) = (IF pos <= Len(hrefs) THEN pos - 1 ELSE Len(hrefs))
          /\ \A i \in DOMAIN StageLog(stage) : StageLog(stage)[i].href = hrefs[i].url
    /\ pc \in {"done", "raised"}
       => /\ Len(StageLog(stage)) = Len(hrefs)
          /\ \A i \in DOMAIN log :
               log[i].outcome = "ok" => \E j \in DOMAIN downloaded : downloaded[j] = log[i].path
    /\ pc = "raised" => \A i \in DOMAIN log : log[i].outcome # "ok"

\* a run ended in which a fetch failed and a later one was saved and returned
C4_Witness ==
    /\ pc = "done"
    /\ \E i, j \in DOMAIN log :
         /\ i < j /\ log[i].outcome \in FetchErrors /\ log[j].outcome = "ok"
         /\ \E k \in DOMAIN downloaded : downloaded[k] = log[j].path

\* C5: within a run no URL is fetched twice, and a URL whose fetch failed is
\* not fetched again, by a later pass or by a later strategy.
C5_NoUrlFetchedTwice ==
    \A i, j \in DOMAIN log :
        (i < j /\ log[i].outcome # "skipped" /\ log[j].outcome # "skipped")
        => log[i].url # log[j].url

\* the period match the pipeline promises for a candidate: the month in the
\* title or the URL, and the digits of the year when a year is given
PeriodMatch(title, url, m, y) ==
    /\ Contains(Lower(title), Lower(m)) \/ Contains(Lower(url), Lower(m))
    /\ JsonYearNum(y) = "" \/ Contains(title, JsonYearNum(y)) \/ Contains(url, JsonYearNum(y))

\* C6: every URL a download loop is handed belongs to a candidate that matches
\* the month and, when given, the year of the query.
C6_OnlyMatchingDownloaded ==
    \A i \in DOMAIN log : PeriodMatch(log[i].title, log[i].url, queryMonth, queryYear)

\* C7: after one pass of the period filter an entry that has a URL is among
\* the results exactly when its title or URL holds the month, compared without
\* regard to case, and the digits of the year when a year is given.
C7_FilterMatchesIffPeriod ==
    (impl = "json" /\ passes = 1)
    => \A i \in DOMAIN candidates :
         candidates[i].url # ""
         => ((\E j \in DOMAIN resolved : resolved[j] = candidates[i])
             <=> PeriodMatch(candidates[i].title, candidates[i].url, queryMonth, queryYear))

\* C8: a pass of the filter over its own result returns that result, element
\* for element and in the same order.
C8_FilterIdempotent ==
    [][passes >= 1 => resolved' = resolved]_vars

\* the filter ran twice on a list from which the first pass had dropped something
C8_Witness ==
    /\ passes = 2 /\ resolved # <<>> /\ Len(resolved) < Len(candidates)

\* the absolute URL without its query string
NormalizedUrl(url) == CutAt(UrlJoin(PAGE_URL, url), {"?"})

\* C9: the candidates handed to a download loop are pairwise different once
\* made absolute and stripped of their query string.
C9_OneCandidatePerDocument ==
    pc = "download"
    => \A i, j \in DOMAIN hrefs :
         i < j => NormalizedUrl(hrefs[i].url) # NormalizedUrl(hrefs[j].url)

\* C10: whatever the entry point and the spelling, the normalizer returns the
\* canonical name of the month that was meant.
C10_EverySpellingCanonical ==
    pc = "normalized" => canonical = MonthNames[monthIndex]

\* the event occurs in the trail of the run
InTrail(event) == \E i \in DOMAIN trail : trail[i] = event

\* how often the event occurs in the trail of the run
TrailCount(event) == Cardinality({ i \in DOMAIN trail : trail[i] = event })

\* the month as typed is a full month name, a 3-letter abbreviation or a
\* number 1..12 with or without a leading zero, in any letter case
ValidMonthTyped(typed) ==
    \E k \in 1..12, form \in SpellingForms : Lower(Strip(typed)) = Lower(Spelled(k, form))

CanonicalMonths == { MonthNames[k] : k \in 1..12 }

\* C11: a month that is no month name, abbreviation or number is rejected by
\* the normalizer, and the month the later stages work with is one of the
\* twelve canonical names.
C11_MonthCanonicalOrRejected ==
    pc # "start"
    => /\ ~ValidMonthTyped(spelling) => failure = "ValueError"
       /\ failure # "ValueError" => queryMonth \in CanonicalMonths

\* C12: a year that is given and does not begin with four digits is rejected
\* by the normalizer: the run ends there with the error.
C12_YearWithoutDigitsRejected ==
    (pc # "start" /\ queryYear # "" /\ LeadingFourDigits(queryYear) = ""
       /\ ValidMonthTyped(spelling))
    => (pc = "ended" /\ failure = "ValueError")

\* C13: when the period is rejected nothing has been done yet: no folder
\* made, no request sent, no browser started, no file written.
C13_RejectionBeforeAnyEffect ==
    failure = "ValueError" => (trail = <<>> /\ folder = <<>> /\ log = <<>>)

\* the json script was given the month foo and ended with the rejection
C13_Witness ==
    impl = "json" /\ spelling = "foo" /\ pc = "ended" /\ failure = "ValueError"

\* C14: driver.quit is never called twice nor before the driver exists, and
\* a run that created the driver has called it, as its last act, when
\* scrape_and_download is left by a return or by an exception.
C14_DriverQuitOnEveryPath ==
    /\ TrailCount("driver.quit") <= 1
    /\ InTrail("driver.quit") => InTrail("webdriver.Chrome")
    /\ (pc = "ended" /\ InTrail("webdriver.Chrome"))
       => (TrailCount("driver.quit") = 1 /\ trail[Len(trail)] = "driver.quit")

\* a run left by the timeout of the select wait has quit the driver
C14_Witness ==
    /\ pc = "ended" /\ failure = "TimeoutException"
    /\ trail[Len(trail)] = "driver.quit"

\* C15: no run ends with an exception raised by the writing of a debug file.
C15_DiagnosticsNeverRaise ==
    failure # "OSError"

\* C16: when the run gives up for lack of year/month controls, the page
\* source and the screenshot have both been tried after the finding.
C16_CaptureBeforeControlsAbort ==
    \A i \in DOMAIN trail :
        trail[i] \in {"select_timeout", "no_selects"}
        => /\ \E j \in DOMAIN trail : j > i /\ trail[j] = "write_html"
           /\ \E j \in DOMAIN trail : j > i /\ trail[j] = "save_screenshot"

\* C17: in the selenium script each wait that times out is followed by the
\* screenshot and the page source; after the timeout of the select wait the
\* run ends with the TimeoutException and has collected and fetched nothing;
\* the timeout of the link wait is never the error of the run, which goes on
\* to the collection of the links.
C17_TimeoutsCaptureThenAbortOrProceed ==
    /\ \A i \in DOMAIN trail :
         trail[i] \in {"select_timeout", "links_timeout"}
         => (i + 2 <= Len(trail) /\ trail[i + 1] = "save_screenshot"
                                 /\ trail[i + 2] = "write_html")
    /\ InTrail("select_timeout")
       => /\ failure = "TimeoutException" /\ pc \in {"raised", "ended"}
          /\ hrefs = <<>> /\ log = <<>> /\ ~InTrail("links_timeout")
    /\ (InTrail("links_timeout") /\ ~InTrail("select_timeout"))
       => /\ failure # "TimeoutException"
          /\ pc = "raised" => failure = "WebDriverException"
    /\ failure = "TimeoutException" => InTrail("select_timeout")

\* after a timeout of the link wait a link was collected and its file saved
C17_Witness ==
    /\ impl = "selenium" /\ InTrail("links_timeout") /\ pc = "ended"
    /\ downloaded # <<>> /\ failure = ""

\* C18: a page in which the embedded payload is not found does not end the
\* run with an error.
C18_PayloadFailureNotFatal ==
    ~(pc = "ended" /\ failure = "SystemExit(1)")

\* what the extraction found on the page before any period filter
PageCandidates ==
    IF impl = "json" THEN SelectSeq(candidates, LAMBDA entry : entry.url # "") ELSE hrefs

\* the extraction of the run went through
ExtractionDone ==
    /\ pc \in {"download", "done", "raised", "ended"}
    /\ failure \in {"", "OSError"}
    /\ ~InTrail("no_selects")
    /\ InTrail("driver.get") \/ InTrail("requests.get")

\* C19: when the extraction went through and nothing it found matches the
\* period, nothing is fetched and the run ends without an error.
C19_NoMatchEndsEmpty ==
    (ExtractionDone
       /\ \A i \in DOMAIN PageCandidates :
            ~PeriodMatch(PageCandidates[i].title, PageCandidates[i].url, queryMonth, queryYear))
    => (log = <<>> /\ downloaded = <<>> /\ failure = "")

\* how often the entry occurs in the list
CountIn(list, entry) == Cardinality({ i \in DOMAIN list : list[i] = entry })

SeptemberEntry == [title |-> "30 September 2025 Portfolio", url |-> SeptemberUrl]

\* C20: in the json script, once the payload is read, no entry without a url
\* is among the matches, every entry with a url whose title or url holds the
\* month and the year is among them as often as in the payload, and the
\* payload of the single September entry with the query (2025, September)
\* gives one match and, its fetch succeeding, the one file report.xlsx, the
\* base name of its url.
C20_JsonEndToEnd ==
    (impl = "json" /\ InTrail("requests.get") /\ pc \in {"download", "done", "ended"})
    => /\ \A j \in DOMAIN hrefs : hrefs[j].url # ""
       /\ \A i \in DOMAIN candidates :
            (/\ candidates[i].url # ""
             /\ Contains(candidates[i].title, queryMonth)
             /\ JsonYearNum(queryYear) # "" /\ Contains(candidates[i].title, JsonYearNum(queryYear)))
            => CountIn(hrefs, candidates[i]) = CountIn(candidates, candidates[i])
       /\ (candidates = <<SeptemberEntry>> /\ queryMonth = "September" /\ queryYear = "2025-2026")
          => /\ hrefs = <<SeptemberEntry>>
             /\ (pc = "ended" /\ Len(log) = 1 /\ log[1].outcome = "ok")
                => /\ downloaded = <<"report.xlsx">>
                   /\ DOMAIN folder = {"report.xlsx"}
                   /\ folder["report.xlsx"] = [src |-> SeptemberUrl, whole |-> TRUE]

\* the json run on the single September entry ended with the file saved
C20_Witness ==
    /\ impl = "json" /\ pc = "ended" /\ failure = ""
    /\ candidates = <<SeptemberEntry>> /\ queryMonth = "September" /\ queryYear = "2025-2026"
    /\ downloaded = <<"report.xlsx">>

\* the names of the files in the folder that the run wrote as documents
RunDocuments ==
    { n \in DOMAIN folder : folder[n] # BeforeFile /\ folder[n] # DebugFile }

\* C30: every document the run left in the folder is whole and is listed in
\* the results the run returns: a fetch that failed has left no file.
C30_ResultsRecordWhatWasSaved ==
    \A n \in RunDocuments :
        /\ folder[n].whole
        /\ \E i \in DOMAIN downloaded : downloaded[i] = n

\* C21: two calls of download_file that ran at the same time on one folder and
\* both returned have two different destination paths, and the file at each
\* path holds what its own call fetched.
C21_ConcurrentPathsDiffer ==
    \A j \in DOMAIN workers, k \in DOMAIN workers :
        (j # k /\ workers[j].at = "returned" /\ workers[k].at = "returned")
        => /\ workers[j].out_path # workers[k].out_path
           /\ folder[workers[k].out_path].src = workers[k].url

\* the opening braces before position idx of the text whose balancing brace
\* lies after idx
EnclosingOpens(text, idx) ==
    { i \in 1..(idx - 1) : CharAt(text, i) = "{" /\ CloseOf(text, i, 0) > idx }

\* C27: every object text the strategy takes from a script holds the marker
\* as a key and is the smallest balanced object around the marker: it runs
\* from the nearest opening brace that encloses the marker to the brace that
\* balances it.
C27_ObjectTextSmallestEnclosing ==
    \A i \in DOMAIN mpContent.tried :
        mpContent.tried[i].text # ValueError
        => \E from \in { Find(scriptTexts[mpContent.tried[i].script], Marker, 1) } :
           \E opens \in { EnclosingOpens(scriptTexts[mpContent.tried[i].script], from) } :
             /\ Contains(mpContent.tried[i].text, "\"" \o Marker \o "\"")
             /\ opens # {}
             /\ mpContent.tried[i].text =
                  Slice(scriptTexts[mpContent.tried[i].script], Max(opens),
                        CloseOf(scriptTexts[mpContent.tried[i].script], Max(opens), 0))

\* the values the marker has as a key of a well-formed object of the text
PayloadsOf(text) ==
    { ValueText(Slice(text, i, CloseOf(text, i, 0)),
                JsonLoads(Slice(text, i, CloseOf(text, i, 0))).members, Marker) :
        i \in { j \in Occurrences(text, "{") :
                  /\ CloseOf(text, j, 0) # 0
                  /\ Parses(Slice(text, j, CloseOf(text, j, 0)))
                  /\ HasKey(JsonLoads(Slice(text, j, CloseOf(text, j, 0))).members, Marker) } }

\* C28: the strategy ends with its error only when no script of the page
\* holds the marker as a key of a well-formed object; when it returns, it
\* returns the value the marker has in such an object.
C28_PayloadReturnedWhenPresent ==
    /\ pc = "not_found" => \A i \in DOMAIN scriptTexts : PayloadsOf(scriptTexts[i]) = {}
    /\ pc = "found" => \E i \in DOMAIN scriptTexts : mpContent.value \in PayloadsOf(scriptTexts[i])

\* the place of the first occurrence of the event in the trail, 0 without one
TrailIndex(event) ==
    IF InTrail(event) THEN Min({ i \in DOMAIN trail : trail[i] = event }) ELSE 0

\* C22: after a select loop that did not find both the year and the month
\* the run is not given up: it has no error, it stands at the clearing, the
\* submission, the settle wait or the extraction, and when it has collected
\* its links the search was clicked and the extraction done.
C22_PartialMatchGoesOn ==
    (InTrail("select_loop") /\ ~(foundYear /\ foundMonth))
    => /\ failure = ""
       /\ pc \in {"clear", "submit", "settle", "extract", "collected"}
       /\ pc = "collected" => (InTrail("click_search") /\ InTrail("extract"))

\* a run that matched the year and not the month has collected its links
C22_Witness ==
    /\ pc = "collected" /\ foundYear /\ ~foundMonth
    /\ InTrail("click_search") /\ InTrail("extract")

\* C23: in the wire script nothing that happens while the overlay is closed
\* and the monthly view opened ends the run: during these steps there is no
\* error, and a run that has left them has gone on to the search for the
\* selects (switch_to_frame_if_needed).
C23_BestEffortStepsNeverAbort ==
    impl = "wire"
    => /\ pc \in {"cookie", "monthly", "portfolio", "frames"} => failure = ""
       /\ pc \notin {"load", "cookie", "monthly", "portfolio", "frames"}
          => InTrail("switch_to_frame_if_needed")

\* the three steps all met an exception and the run collected its links
C23_Witness ==
    /\ InTrail("cookie_banner:raised") /\ InTrail("monthly_tab:raised")
    /\ InTrail("portfolio:raised") /\ pc = "collected"

\* the URLs one request contributes
RequestUrlSet(req) == { WireRequestUrls(req)[i] : i \in DOMAIN WireRequestUrls(req) }

YearChoiceOk(options, chosen) ==
    IF \E i \in DOMAIN options : options[i] = queryYear
    THEN chosen = queryYear
    ELSE \E i \in DOMAIN options :
            /\ chosen = options[i] /\ Contains(options[i], queryYear)
            /\ \A j \in 1..(i - 1) : ~Contains(options[j], queryYear)

\* likewise for the month, letter case apart
MonthChoiceOk(options, chosen) ==
    IF \E i \in DOMAIN options : Lower(options[i]) = Lower(queryMonth)
    THEN Lower(chosen) = Lower(queryMonth)
    ELSE \E i \in DOMAIN options :
            /\ chosen = options[i] /\ Contains(Lower(options[i]), Lower(queryMonth))
            /\ \A j \in 1..(i - 1) : ~Contains(Lower(options[j]), Lower(queryMonth))

\* the selects the loop went through
LoopSelects == find_selects_in_current_context(doc, frameCtx)

\* C25: after the select loop, in the select that was given the year the
\* option selected is the one equal to the year when there is one and else
\* the first that holds it; likewise, letter case apart, for the month; no
\* role is given to two selects, and found_year and found_month tell which
\* roles were given.
C25_ExactOptionPreferred ==
    InTrail("select_loop")
    => /\ Len(picked) = Len(LoopSelects)
       /\ \A k \in DOMAIN picked :
            /\ picked[k].role = "year" => YearChoiceOk(LoopSelects[k], picked[k].option)
            /\ picked[k].role = "month" => MonthChoiceOk(LoopSelects[k], picked[k].option)
       /\ \A j \in DOMAIN picked, k \in DOMAIN picked :
            (j # k /\ picked[j].role # "") => picked[j].role # picked[k].role
       /\ foundYear <=> \E k \in DOMAIN picked : picked[k].role = "year"
       /\ foundMonth <=> \E k \in DOMAIN picked : picked[k].role = "month"

\* both roles were given, each to the option equal to the target although an
\* option that only holds the target comes first
C25_Witness ==
    /\ pc = "collected" /\ queryYear = "2025-2026"
    /\ picked = <<[role |-> "year", option |-> "2025-2026"],
                  [role |-> "month", option |-> "SEPTEMBER"]>>

\* the frames that can be entered and hold a select
UsableFrames == { k \in DOMAIN doc.frames : doc.frames[k].enter /\ doc.frames[k].selects # <<>> }

\* C26: after switch_to_frame_if_needed the context is the main document when
\* that holds a select; else the first frame, in document order, that could be
\* entered and holds a select; and the main document when there is no such
\* frame.
C26_ContextAfterFrameSwitch ==
    (impl = "wire" /\ InTrail("switch_to_frame_if_needed"))
    => frameCtx = (IF doc.main # <<>> THEN 0
                   ELSE IF UsableFrames # {} THEN Min(UsableFrames)
                   ELSE 0)

\* the context is the second frame, the first one holding no select
C26_Witness ==
    /\ impl = "wire" /\ InTrail("switch_to_frame_if_needed")
    /\ frameCtx = 2 /\ doc.frames[1].enter /\ doc.frames[1].selects = <<>>

\* C29: in the wire script a page without selects on which the heuristic
\* discovery set a year or month field is not given up for missing controls.
C29_HeuristicControlsGoOn ==
    (impl = "wire" /\ InTrail("set_year_month_controls") /\ doc.fields # {})
    => (pc # "abort" /\ ~InTrail("no_selects"))
====
